---- MODULE Spec2Model ----
(***************************************************************************)
(* A model of the SAR visualisation pipeline of sarpro:                    *)
(*   - polarization algebra          (core/processing/ops.rs)              *)
(*   - radiometric conversion        (core/processing/pipeline.rs)         *)
(*   - statistics, autoscale, CLAHE  (core/processing/autoscale.rs)        *)
(* Every component is a pure function.  Each has its own specification:    *)
(* Init draws the inputs from bounded sets and one action per entry point  *)
(* applies the function and records what the caller gets back.             *)
(*                                                                         *)
(* Real numbers are carried exactly as integers over a fixed unit (stated  *)
(* with each component); where the code leaves the reals (log10(0), a      *)
(* power of a negative number, a division by zero) the value is a tagged   *)
(* IEEE special ("neginf", "nan", "inf").                                  *)
(***************************************************************************)
EXTENDS Integers, Sequences, FiniteSets, TLC

VARIABLES
    opA, opB,      \* the two complex input grids of a polarization operation
    opRes,         \* what the operation gave back: [status, op, grid]
    raw,           \* the f32 intensity grid handed to radiometric conversion
    dbRes,         \* what process_scalar_data_inplace returned
    db, valid,     \* a dB grid and its validity mask (inputs of autoscale)
    scRes,         \* what an autoscale entry point returned
    band1, band2,  \* two quantized 8-bit bands (inputs of the compositor)
    rgbRes,        \* what a composition entry point returned
    img,           \* a quantized grid: [cols, rows, u8_data, u16_data]
    geoRes,        \* what a geometric entry point returned
    tileIn,        \* a CLAHE tile: [tile_rows, tile_cols, hist]
    clipRes,       \* the tile's histogram after clipping and redistribution
    meta,          \* the source geotransform of a product, if it has one
    saveRes,       \* what a save function did: the geotransform it wrote
    products,      \* the subdirectories of a batch's input directory, by kind
    batch,         \* process_directory_to_path: position, report, outcome
    gui,           \* SarproGui: is_processing, processing_start_time, completion_receiver
    log_messages,  \* the displayed log list of the SarproGui
    LOG_BUFFER,    \* the global buffer GuiLogLayer writes to
    workers,       \* the background threads spawned so far, with their channels
    logged         \* number of events logged outside process_files and update

opsVars   == <<opA, opB, opRes>>
dbVars    == <<raw, dbRes>>
scaleVars == <<db, valid, scRes>>
rgbVars   == <<band1, band2, rgbRes>>
geoVars   == <<img, geoRes>>
clipVars  == <<tileIn, clipRes>>
saveVars  == <<meta, saveRes>>
batchVars == <<products, batch>>
guiVars   == <<gui, log_messages, LOG_BUFFER, workers, logged>>
vars      == <<opA, opB, opRes, raw, dbRes, db, valid, scRes, band1, band2, rgbRes,
               img, geoRes,
               tileIn, clipRes,
               meta, saveRes,
               products, batch,
               gui, log_messages, LOG_BUFFER, workers, logged>>

----------------------------------------------------------------------------
(* Small arithmetic helpers                                                *)

Abs(x) == IF x < 0 THEN -x ELSE x
Max2(x, y) == IF x >= y THEN x ELSE y
Min2(x, y) == IF x <= y THEN x ELSE y

RECURSIVE Gcd(_, _)
Gcd(x, y) == IF y = 0 THEN x ELSE Gcd(y, x % y)

\* floor(x / y) for y > 0 and any integer x (\div of TLA+ is already a floor)
FloorDiv(x, y) == x \div y

\* the sum of f[x] over x in S
RECURSIVE SumFn(_, _)
SumFn(f, S) ==
    IF S = {} THEN 0
    ELSE LET x == CHOOSE y \in S : TRUE IN f[x] + SumFn(f, S \ {x})

\* A grid is [rows, cols, data] with data the row-major sequence of samples.
Grid(r, c, d) == [rows |-> r, cols |-> c, data |-> d]
NoGrid == Grid(0, 0, <<>>)
At(g, i, j) == g.data[i * g.cols + j + 1]          \* 0-based (i, j)

\* All sequences of length n over S
SeqsOf(S, n) == [1..n -> S]

\* the element of a one-element set: { F(x) : x \in {e} } names the value of e
Only(S) == CHOOSE x \in S : TRUE

Repeat(v, n) == [k \in 1..n |-> v]

\* the sequence f itself, as an explicit tuple of its values
Tabulated(f) == f \o <<>>

\* the function f itself, as an explicit table of its values
Table(f) == f @@ <<>>

----------------------------------------------------------------------------
(* Polarization algebra: core/processing/ops.rs                            *)
(*                                                                         *)
(* A complex sample is <<re, im>> in units of 1e-10, so the zero-handling  *)
(* threshold 1e-10 of the code is one unit.  A result sample is            *)
(*   [cls |-> "fin", re, im, den]   the complex number (re + i im) / den   *)
(*   [cls |-> "log", n, d]          the real 10*log10(sqrt(n/d)), n, d > 0 *)
(*   [cls |-> "nan"], [cls |-> "neginf"]   IEEE specials                   *)

MaxElems == 3                    \* a grid holds at most this many samples

CVals == { <<0, 0>>, <<1, 0>>, <<-1, 1>> }

OpShapes == { <<r, c>> \in (1..MaxElems) \X (1..MaxElems) : r * c <= MaxElems }

OpGrids == UNION { { Grid(s[1], s[2], d) : d \in SeqsOf(CVals, s[1] * s[2]) } : s \in OpShapes }

Fin(re, im, den) ==
    LET g0 == Gcd(Gcd(Abs(re), Abs(im)), den)
        g  == IF g0 = 0 THEN 1 ELSE g0
    IN  [cls |-> "fin", re |-> re \div g, im |-> im \div g, den |-> den \div g]

CZero == Fin(0, 0, 1)
CNaN == [cls |-> "nan"]
CNegInf == [cls |-> "neginf"]

\* Complex::norm() > 1e-10, on exact values: re^2 + im^2 > 1 unit^2
NormAboveEps(z) == z[1] * z[1] + z[2] * z[2] > 1

CAdd(x, y) == <<x[1] + y[1], x[2] + y[2]>>
CSub(x, y) == <<x[1] - y[1], x[2] - y[2]>>

\* Complex division x / y; IEEE gives NaN components for a zero divisor
CDiv(x, y) ==
    LET den == y[1] * y[1] + y[2] * y[2]
    IN  IF den = 0 THEN CNaN
        ELSE Fin(x[1] * y[1] + x[2] * y[2], x[2] * y[1] - x[1] * y[2], den)

\* 10 * log10(|q|) of a finite complex q: log10(0) is -inf
TenLog10Norm(q) ==
    LET nsq == q.re * q.re + q.im * q.im
        g   == Gcd(nsq, q.den * q.den)
    IN  IF q.cls # "fin" THEN CNaN
        ELSE IF nsq = 0 THEN CNegInf
        ELSE [cls |-> "log", n |-> nsq \div g, d |-> (q.den * q.den) \div g]

SameDim(x, y) == x.rows = y.rows /\ x.cols = y.cols

\* ndarray's arithmetic on two array references co-broadcasts the operands:
\* an axis of length 1 stretches to the other operand's length, any other
\* disagreement panics.
Broadcastable(x, y) ==
    /\ (x.rows = y.rows \/ x.rows = 1 \/ y.rows = 1)
    /\ (x.cols = y.cols \/ x.cols = 1 \/ y.cols = 1)

BAt(g, i, j) == At(g, IF g.rows = 1 THEN 0 ELSE i, IF g.cols = 1 THEN 0 ELSE j)

\* the broadcast shape and, per element, the pair of operands
BroadcastPairs(x, y) ==
    LET r == Max2(x.rows, y.rows)
        c == Max2(x.cols, y.cols)
    IN  Grid(r, c, [k \in 1..(r * c) |->
                      << BAt(x, (k - 1) \div c, (k - 1) % c),
                         BAt(y, (k - 1) \div c, (k - 1) % c) >>])

\* Zip::from(a).and(b).and(&mut result): same-shaped operands only
ZipPairs(x, y) ==
    Grid(x.rows, x.cols, [k \in 1..(x.rows * x.cols) |-> <<x.data[k], y.data[k]>>])

SumElem(x, y) == Fin(CAdd(x, y)[1], CAdd(x, y)[2], 1)
DiffElem(x, y) == Fin(CSub(x, y)[1], CSub(x, y)[2], 1)

\* the ratio without its zero-handling rule
RatioElem_NoZeroRule(x, y) == CDiv(x, y)

RatioElem(x, y) == IF NormAboveEps(y) THEN CDiv(x, y) ELSE CZero

NormalizedDiffElem(x, y) ==
    LET sum == CAdd(x, y)
    IN  IF NormAboveEps(sum) THEN CDiv(CSub(x, y), sum) ELSE CZero

LogRatioElem(x, y) ==
    IF NormAboveEps(y) THEN TenLog10Norm(CDiv(x, y)) ELSE CZero

Returned(op, g) == [status |-> "ok", op |-> op, grid |-> g]
Panicked(op) == [status |-> "panic", op |-> op, grid |-> NoGrid]
NotCalled == [status |-> "none", op |-> "none", grid |-> NoGrid]

sum_arrays(x, y) ==
    LET p == BroadcastPairs(x, y)
    IN  IF Broadcastable(x, y)
        THEN Returned("sum", Grid(p.rows, p.cols,
                 [k \in 1..Len(p.data) |-> SumElem(p.data[k][1], p.data[k][2])]))
        ELSE Panicked("sum")

difference_arrays(x, y) ==
    LET p == BroadcastPairs(x, y)
    IN  IF Broadcastable(x, y)
        THEN Returned("difference", Grid(p.rows, p.cols,
                 [k \in 1..Len(p.data) |-> DiffElem(p.data[k][1], p.data[k][2])]))
        ELSE Panicked("difference")

ratio_arrays(x, y) ==
    LET p == ZipPairs(x, y)
    IN  IF SameDim(x, y)
        THEN Returned("ratio", Grid(p.rows, p.cols,
                 [k \in 1..Len(p.data) |-> RatioElem(p.data[k][1], p.data[k][2])]))
        ELSE Panicked("ratio")

normalized_diff_arrays(x, y) ==
    LET p == ZipPairs(x, y)
    IN  IF SameDim(x, y)
        THEN Returned("normalized_diff", Grid(p.rows, p.cols,
                 [k \in 1..Len(p.data) |-> NormalizedDiffElem(p.data[k][1], p.data[k][2])]))
        ELSE Panicked("normalized_diff")

log_ratio_arrays(x, y) ==
    LET p == ZipPairs(x, y)
    IN  IF SameDim(x, y)
        THEN Returned("log_ratio", Grid(p.rows, p.cols,
                 [k \in 1..Len(p.data) |-> LogRatioElem(p.data[k][1], p.data[k][2])]))
        ELSE Panicked("log_ratio")


SumArrays ==
    /\ opRes.status = "none"
    /\ opRes' = sum_arrays(opA, opB)
    /\ UNCHANGED <<opA, opB, dbVars, scaleVars, rgbVars, geoVars, clipVars, saveVars, batchVars, guiVars>>

DifferenceArrays ==
    /\ opRes.status = "none"
    /\ opRes' = difference_arrays(opA, opB)
    /\ UNCHANGED <<opA, opB, dbVars, scaleVars, rgbVars, geoVars, clipVars, saveVars, batchVars, guiVars>>

RatioArrays ==
    /\ opRes.status = "none"
    /\ opRes' = ratio_arrays(opA, opB)
    /\ UNCHANGED <<opA, opB, dbVars, scaleVars, rgbVars, geoVars, clipVars, saveVars, batchVars, guiVars>>

NormalizedDiffArrays ==
    /\ opRes.status = "none"
    /\ opRes' = normalized_diff_arrays(opA, opB)
    /\ UNCHANGED <<opA, opB, dbVars, scaleVars, rgbVars, geoVars, clipVars, saveVars, batchVars, guiVars>>

LogRatioArrays ==
    /\ opRes.status = "none"
    /\ opRes' = log_ratio_arrays(opA, opB)
    /\ UNCHANGED <<opA, opB, dbVars, scaleVars, rgbVars, geoVars, clipVars, saveVars, batchVars, guiVars>>

NextOps ==
    \/ SumArrays
    \/ DifferenceArrays
    \/ RatioArrays
    \/ NormalizedDiffArrays
    \/ LogRatioArrays

----------------------------------------------------------------------------
(* Radiometric conversion: core/processing/pipeline.rs                     *)
(*                                                                         *)
(* An intensity sample is <<m, e>>, the number m * 10^e with mantissa m in *)
(* {-5, -2, -1, 0, 1, 2, 5}.  dB values are integers in thousandths of a   *)
(* dB; log10 of a mantissa is its value rounded to three decimals.         *)

MaxRawElems == 3                 \* a raw grid holds at most this many samples

RawVals == { <<0, 0>>, <<-2, 0>>, <<1, -12>>, <<1, -10>>, <<5, -6>>,
             <<1, -5>>, <<2, -5>>, <<1, 0>> }

RawShapes == { <<r, c>> \in (1..MaxRawElems) \X (1..MaxRawElems) : r * c <= MaxRawElems }

\* contiguous: whether Array2::as_slice() yields the samples (standard layout)
RawGrids(s) ==
    [rows : {s[1]}, cols : {s[2]}, data : SeqsOf(RawVals, s[1] * s[2]), contiguous : BOOLEAN]

\* x > y on samples
SciGt(x, y) ==
    IF x[1] <= 0 \/ y[1] <= 0 THEN
        IF x[1] > 0 THEN TRUE
        ELSE IF y[1] > 0 THEN FALSE
        ELSE IF x[1] = 0 \/ y[1] = 0 THEN x[1] > y[1]
        ELSE (x[2] < y[2]) \/ (x[2] = y[2] /\ x[1] > y[1])    \* both negative
    ELSE (x[2] > y[2]) \/ (x[2] = y[2] /\ x[1] > y[1])

MagnitudeFloor == <<1, -10>>                       \* 1e-10

\* f64::max(v, 1e-10)
ClampMagnitude(v) == IF SciGt(v, MagnitudeFloor) THEN v ELSE MagnitudeFloor

\* 1000 * log10(m * 10^e) for a positive sample
Log10Milli(x) ==
    1000 * x[2] + (CASE x[1] = 1 -> 0 [] x[1] = 2 -> 301 [] x[1] = 5 -> 699)

\* db_val = 10.0 * magnitude.log10(), in thousandths of a dB
DbOf(v) == 10 * Log10Milli(ClampMagnitude(v))

\* the noise floor taken as inclusive
IsValidDb_Inclusive(d) == d >= -50000

\* db_val > -50.0
IsValidDb(d) == d > -50000

\* Both branches (slice iteration, indexed iteration) visit the samples in
\* logical row-major order and push one dB value and one mask entry each.
process_scalar_data_inplace(g) ==
    LET len == g.rows * g.cols
        db_vec == [k \in 1..len |-> DbOf(g.data[k])]
        valid_mask == [k \in 1..len |-> IsValidDb(db_vec[k])]
    IN  IF g.contiguous
        THEN [status |-> "ok", db |-> Grid(g.rows, g.cols, db_vec), mask |-> valid_mask]
        ELSE [status |-> "ok",
              db |-> Grid(g.rows, g.cols,
                          [k \in 1..len |-> DbOf(g.data[((k - 1) \div g.cols) * g.cols + ((k - 1) % g.cols) + 1])]),
              mask |-> [k \in 1..len |->
                          IsValidDb(DbOf(g.data[((k - 1) \div g.cols) * g.cols + ((k - 1) % g.cols) + 1]))]]

DbNotCalled == [status |-> "none", db |-> NoGrid, mask |-> <<>>]
NoRaw == [rows |-> 0, cols |-> 0, data |-> <<>>, contiguous |-> TRUE]


ProcessScalarDataInplace ==
    /\ dbRes.status = "none"
    /\ dbRes' = process_scalar_data_inplace(raw)
    /\ UNCHANGED <<raw, opsVars, scaleVars, rgbVars, geoVars, clipVars, saveVars, batchVars, guiVars>>

NextDb == ProcessScalarDataInplace

----------------------------------------------------------------------------
(* Distribution statistics: compute_histogram_stats, autoscale.rs          *)
(*                                                                         *)
(* The dB grid holds whole dB values.  Inside the engine a real number x   *)
(* is the integer x * SCALE: SCALE is chosen so that every quantity the    *)
(* code derives from whole-dB samples (means over up to MaxPixels samples, *)
(* positions inside a histogram bin, 2.5*IQR, 0.02*range, half a window)   *)
(* is a whole number of units, hence exact.                                *)

MaxPixels == 4                   \* a dB grid holds at most this many samples
NUM_BINS == 4096

DbVals == { -100, -45, -35, 0 }  \* -100 dB is what a clamped (invalid) sample gets

RECURSIVE LcmUpTo(_)
LcmUpTo(n) == IF n <= 1 THEN 1 ELSE (LcmUpTo(n - 1) * n) \div Gcd(LcmUpTo(n - 1), n)

LCM == LcmUpTo(MaxPixels)
SCALE == NUM_BINS * LCM * 50
ToU(v) == v * SCALE                                 \* whole dB -> units

ScShapes == { <<r, c>> \in (1..MaxPixels) \X (1..MaxPixels) : r * c <= MaxPixels }
DbGrids(s) == [rows : {s[1]}, cols : {s[2]}, data : SeqsOf(DbVals, s[1] * s[2])]

\* the valid samples in iteration (row-major) order: valid_mask[i * ncols + j]
\* (the samples of positions lo..hi; halving keeps the evaluation shallow)
RECURSIVE ValidSamplesIn(_, _, _, _)
ValidSamplesIn(g, m, lo, hi) ==
    IF lo > hi THEN <<>>
    ELSE IF lo = hi
    THEN (IF m[((lo - 1) \div g.cols) * g.cols + ((lo - 1) % g.cols) + 1]
          THEN <<g.data[lo]>> ELSE <<>>)
    ELSE ValidSamplesIn(g, m, lo, (lo + hi) \div 2)
           \o ValidSamplesIn(g, m, (lo + hi) \div 2 + 1, hi)

ValidSamples(g, m) == ValidSamplesIn(g, m, 1, Len(g.data))

SeqMin(s) == CHOOSE x \in { s[k] : k \in 1..Len(s) } : \A k \in 1..Len(s) : x <= s[k]
SeqMax(s) == CHOOSE x \in { s[k] : k \in 1..Len(s) } : \A k \in 1..Len(s) : x >= s[k]

\* Welford's update over the first k valid samples: <<mean, m2>>, the mean in
\* units and m2 in (dB / LCM)^2
WelfordStep(prev, v, k) ==
    LET delta  == ToU(v) - prev[1]
        mean   == prev[1] + delta \div k
        delta2 == ToU(v) - mean
    IN  <<mean, prev[2] + (delta \div (SCALE \div LCM)) * (delta2 \div (SCALE \div LCM))>>

\* the updates for the samples lo..hi in order, from the pair acc
RECURSIVE WelfordFrom(_, _, _, _)
WelfordFrom(acc, vs, lo, hi) ==
    IF lo > hi THEN acc
    ELSE IF lo = hi THEN WelfordStep(acc, vs[lo], lo)
    ELSE Only({ WelfordFrom(left, vs, (lo + hi) \div 2 + 1, hi) :
                  left \in { WelfordFrom(acc, vs, lo, (lo + hi) \div 2) } })

Welford(vs, k) == WelfordFrom(<<0, 0>>, vs, 1, k)

\* floor(sqrt(n))
RECURSIVE ISqrtFrom(_, _)
ISqrtFrom(n, r) == IF (r + 1) * (r + 1) > n THEN r ELSE ISqrtFrom(n, r + 1)
RECURSIVE ISqrt(_)
ISqrt(n) == IF n < 4 THEN (IF n = 0 THEN 0 ELSE 1)
            ELSE ISqrtFrom(n, 2 * ISqrt(n \div 4))

\* std_db = sqrt(m2 / count) for count > 1, else 0; in units, taken to the
\* 1/LCM dB below
StdDb(m2, count) ==
    IF count > 1 THEN ISqrt(m2 \div count) * (SCALE \div LCM) ELSE 0

\* the bin index without the cap of line 115
BinOf_NoCap(v, min_db, max_db) ==
    ((v - min_db) * NUM_BINS) \div (max_db - min_db)

\* the histogram bin of a valid sample v (whole dB), lines 113-115
BinOf(v, min_db, max_db) ==
    Min2(((v - min_db) * NUM_BINS) \div (max_db - min_db), NUM_BINS - 1)

\* hist, lines 105-118: the function from each occupied bin to its count
\* (every other bin holds 0)
Histogram(vs, min_db, max_db) ==
    Only({ [b \in { bins[k] : k \in 1..Len(vs) } |->
              Cardinality({ k \in 1..Len(vs) : bins[k] = b })]
         : bins \in { Tabulated([k \in 1..Len(vs) |-> BinOf(vs[k], min_db, max_db)]) } })

\* cumsum on entering bin b
CumBefore(hist, b) == SumFn(hist, { x \in DOMAIN hist : x < b })

\* target = floor(p * n), clamped to n - 1; p in percent
PercentileTarget(pct, n) == Min2((pct * n) \div 100, n - 1)

\* bin_start + frac * bin_width for the target inside bin b, lines 128-135
PercentileInBin(hist, target, b, min_db, max_db) ==
    LET within == Max2(target - CumBefore(hist, b), 0)
        span   == max_db - min_db
    IN  ToU(min_db) + b * (span * (SCALE \div NUM_BINS))
          + within * (span * (SCALE \div (NUM_BINS * hist[b])))

\* the bins whose running sum exceeds target
HitBins(hist, target) ==
    { b \in DOMAIN hist : target < CumBefore(hist, b) + hist[b] }

\* the walk of lines 126-139 for one target: the first bin with
\* target < cumsum + h, and the position of target inside it.  Only a bin
\* that holds samples can be the first one whose running sum exceeds target,
\* so the walk visits those.
PercentileAt(hist, target, min_db, max_db) ==
    Only({ IF hit = {} THEN ToU(max_db)
           ELSE PercentileInBin(hist, target,
                                CHOOSE x \in hit : \A y \in hit : x <= y, min_db, max_db)
         : hit \in { HitBins(hist, target) } })

\* estimate_percentile depends on p through target only: its values for the
\* targets 0..n-1, at positions 1..n
PercentilesByTarget(hist, n, min_db, max_db) ==
    Tabulated([t \in 1..n |-> PercentileAt(hist, t - 1, min_db, max_db)])

estimate_percentile(by_target, n, pct) == by_target[PercentileTarget(pct, n) + 1]

\* a snapshot that keeps the scan's start values instead of zeros
ZeroStats_ScanStart ==
    [valid_count |-> 0, min_db |-> 2000000000, max_db |-> -2000000000,
     mean_db |-> 0, std_db |-> 0,
     median_db |-> 0, p01 |-> 0, p02 |-> 0, p05 |-> 0, p10 |-> 0, p25 |-> 0,
     p75 |-> 0, p90 |-> 0, p95 |-> 0, p98 |-> 0, p99 |-> 0]

ZeroStats ==
    [valid_count |-> 0, min_db |-> 0, max_db |-> 0, mean_db |-> 0, std_db |-> 0,
     median_db |-> 0, p01 |-> 0, p02 |-> 0, p05 |-> 0, p10 |-> 0, p25 |-> 0,
     p75 |-> 0, p90 |-> 0, p95 |-> 0, p98 |-> 0, p99 |-> 0]

\* the snapshot of a non-empty sample list, lines 78-160
HistogramStats(vs, min_db, max_db, w) ==
    IF max_db = min_db THEN
        [valid_count |-> Len(vs), min_db |-> ToU(min_db), max_db |-> ToU(max_db),
         mean_db |-> w[1], std_db |-> StdDb(w[2], Len(vs)),
         median_db |-> ToU(min_db), p01 |-> ToU(min_db), p02 |-> ToU(min_db),
         p05 |-> ToU(min_db), p10 |-> ToU(min_db), p25 |-> ToU(min_db),
         p75 |-> ToU(max_db), p90 |-> ToU(max_db), p95 |-> ToU(max_db),
         p98 |-> ToU(max_db), p99 |-> ToU(max_db)]
    ELSE
        Only({ [valid_count |-> Len(vs), min_db |-> ToU(min_db), max_db |-> ToU(max_db),
                mean_db |-> w[1], std_db |-> StdDb(w[2], Len(vs)),
                median_db |-> estimate_percentile(pt, Len(vs), 50),
                p01 |-> estimate_percentile(pt, Len(vs), 1),
                p02 |-> estimate_percentile(pt, Len(vs), 2),
                p05 |-> estimate_percentile(pt, Len(vs), 5),
                p10 |-> estimate_percentile(pt, Len(vs), 10),
                p25 |-> estimate_percentile(pt, Len(vs), 25),
                p75 |-> estimate_percentile(pt, Len(vs), 75),
                p90 |-> estimate_percentile(pt, Len(vs), 90),
                p95 |-> estimate_percentile(pt, Len(vs), 95),
                p98 |-> estimate_percentile(pt, Len(vs), 98),
                p99 |-> estimate_percentile(pt, Len(vs), 99)]
             : pt \in { PercentilesByTarget(Histogram(vs, min_db, max_db), Len(vs), min_db, max_db) } })

compute_histogram_stats(g, m) ==
    Only({ IF vs = <<>> THEN ZeroStats
           ELSE Only({ HistogramStats(vs, lo, hi, w) :
                         lo \in { SeqMin(vs) }, hi \in { SeqMax(vs) },
                         w \in { Welford(vs, Len(vs)) } })
         : vs \in { ValidSamples(g, m) } })

----------------------------------------------------------------------------
(* Autoscale strategy engine: autoscale.rs                                 *)
(*                                                                         *)
(* A normalized value is the rational <<num, den>> (den > 0), or NaN.     *)
(* gamma is carried in tenths (11 is 1.1).                                 *)

PowGrid == 4                     \* resolution of a non-integer power, in steps per unit

Strategies == {"Standard", "Robust", "Adaptive", "Equalized", "Clahe", "Tamed", "Default"}
BitDepths == {"U8", "U16"}

\* whether the build checks integer overflow: only the CLAHE path has an
\* unsigned subtraction on which the two builds differ
Builds(strategy) == IF strategy = "Clahe" THEN BOOLEAN ELSE {FALSE}

MaxVal(bit_depth) == IF bit_depth = "U8" THEN 255 ELSE 65535

\* <<q, rem>> with a * m = q * r + rem and 0 <= rem < r, for 0 <= a <= r,
\* computed bit by bit so that no intermediate value exceeds 3 * r
MulDivStep(h, a, odd, r) ==
    LET t == 2 * h[2] + (IF odd THEN a ELSE 0)
    IN  <<2 * h[1] + t \div r, t % r>>

RECURSIVE MulDiv(_, _, _)
MulDiv(a, m, r) ==
    IF m = 0 THEN <<0, 0>>
    ELSE Only({ MulDivStep(h, a, m % 2 = 1, r) : h \in { MulDiv(a, m \div 2, r) } })

RECURSIVE IPow(_, _)
IPow(b, e) == IF e = 0 THEN 1 ELSE b * IPow(b, e - 1)

\* f64::powf(gamma).  gamma 1.0 returns its argument.  A negative base with
\* a non-integer exponent is NaN.  Otherwise the power is irrational: it is
\* taken on a grid of PowGrid steps, the argument and the result both to
\* the step below, which keeps 0^g = 0, 1^g = 1 and the order of values.
NaN == <<0, 0>>
IsNaN(x) == x[2] = 0

\* the largest step k with (k / PowGrid)^10 <= (i / PowGrid)^gamma10
PowStep(i, gamma10) ==
    Cardinality({ k \in 1..PowGrid :
                    IF gamma10 >= 10
                    THEN IPow(k, 10) * IPow(PowGrid, gamma10 - 10) <= IPow(i, gamma10)
                    ELSE IPow(k, 10) <= IPow(i, gamma10) * IPow(PowGrid, 10 - gamma10) })

PowGamma(x, gamma10) ==
    IF gamma10 = 10 THEN x
    ELSE IF x[1] < 0 THEN NaN
    ELSE Only({ <<PowStep(i, gamma10), PowGrid>> :
                  i \in { IF x[1] >= x[2] THEN PowGrid ELSE MulDiv(x[1], PowGrid, x[2])[1] } })

\* the conversion f64 -> u16 without clamping: `x as u16` truncates toward
\* zero and saturates, NaN gives 0
TruncScaled(x, max_val) ==
    IF IsNaN(x) THEN 0
    ELSE IF x[1] <= 0 THEN 0
    ELSE IF x[1] >= x[2] THEN max_val
    ELSE MulDiv(x[1], max_val, x[2])[1]

\* (normalized * max_val).clamp(0.0, max_val) as u16
ToLevel(x, max_val) == TruncScaled(x, max_val)

\* clipped = v.max(low).min(high); normalized = ((clipped - low) / range).powf(gamma)
Normalized(v, low_clip, high_clip, range, gamma10) ==
    PowGamma(<<Min2(Max2(v, low_clip), high_clip) - low_clip, range>>, gamma10)

\* one output sample of the scaling loops (lines 437-447, 647-655, 731-741)
ScalePixel(g, m, k, low_clip, high_clip, range, gamma10, max_val) ==
    IF m[((k - 1) \div g.cols) * g.cols + ((k - 1) % g.cols) + 1]
    THEN Only({ ToLevel(x, max_val) :
                  x \in { Normalized(ToU(g.data[k]), low_clip, high_clip, range, gamma10) } })
    ELSE 0

ScaleLoop(g, m, low_clip, high_clip, range, gamma10, max_val) ==
    [k \in 1..Len(g.data) |-> ScalePixel(g, m, k, low_clip, high_clip, range, gamma10, max_val)]

Zeros(n) == [k \in 1..n |-> 0]

\* 2.5 * x, 0.8 * x, 0.02 * x and x / 2 on units (exact: see SCALE)
Times2p5(x) == (x \div 2) * 5
Times0p8(x) == (x \div 5) * 4
Times0p02(x) == x \div 50
Half(x) == x \div 2

\* the last branch alone: [p02, p98] with gamma 1.0 whatever the distribution
StandardCascade_LastBranchOnly(st) ==
    [low |-> st.p02, high |-> st.p98, gamma10 |-> 10, branch |-> "normal"]

\* the SAR-specific clipping strategy of autoscale_db_image, lines 404-424
StandardCascade(st) ==
    LET dynamic_range == st.max_db - st.min_db
        iqr == st.p75 - st.p25
    IN  IF dynamic_range < 15 * SCALE THEN
            LET range == Max2(20 * SCALE, Times0p8(dynamic_range))
            IN  [low |-> st.median_db - Half(range), high |-> st.median_db + Half(range),
                 gamma10 |-> 11, branch |-> "low_contrast"]
        ELSE IF iqr < 5 * SCALE THEN
            [low |-> st.p25 - Times2p5(iqr), high |-> st.p75 + Times2p5(iqr),
             gamma10 |-> 10, branch |-> "heavy_tailed"]
        ELSE IF dynamic_range > 40 * SCALE THEN
            [low |-> Max2(st.p02, st.min_db + Times0p02(dynamic_range)),
             high |-> Min2(st.p98, st.max_db - Times0p02(dynamic_range)),
             gamma10 |-> 9, branch |-> "high_range"]
        ELSE
            [low |-> st.p02, high |-> st.p98, gamma10 |-> 10, branch |-> "normal"]

\* the cascade's bounds used as they are, without lines 427-428
StandardClip_NoReclamp(st) ==
    LET c == StandardCascade(st)
    IN  [low |-> c.low, high |-> c.high, gamma10 |-> c.gamma10,
         range |-> Max2(c.high - c.low, SCALE), branch |-> c.branch]

\* "Ensure valid range", lines 427-429
StandardClip(st) ==
    LET c == StandardCascade(st)
        low_clip == Max2(c.low, st.min_db)
        high_clip == Min2(c.high, st.max_db)
    IN  [low |-> low_clip, high |-> high_clip, gamma10 |-> c.gamma10,
         range |-> Max2(high_clip - low_clip, SCALE), branch |-> c.branch]

autoscale_db_image(g, m, bit_depth) ==
    Only({ IF stats.valid_count = 0 THEN Zeros(Len(g.data))
           ELSE LET c == StandardClip(stats)
                IN  ScaleLoop(g, m, c.low, c.high, c.range, c.gamma10, MaxVal(bit_depth))
         : stats \in { compute_histogram_stats(g, m) } })

\* the percentile pair and gamma of the Adaptive strategy, lines 503-519
AdaptiveChoice(st) ==
    LET skew_abs_above_half == 2 * Abs(st.mean_db - st.median_db) > Max2(Abs(st.std_db), SCALE)
        skew_positive == st.mean_db > st.median_db
        tail_above_two == st.p99 - st.p95 > 2 * Max2(st.p95 - st.p75, SCALE)
    IN  IF skew_abs_above_half THEN
            (IF skew_positive THEN <<2, 98, 9>> ELSE <<5, 95, 11>>)
        ELSE IF tail_above_two THEN <<10, 90, 8>>
        ELSE <<5, 95, 10>>

\* the approx_eq chains of lines 522-535
LowPercentile(st, pct) ==
    CASE pct = 10 -> st.p10 [] pct = 2 -> st.p02 [] pct = 5 -> st.p05
      [] pct = 25 -> st.p25 [] pct = 75 -> st.p75 [] pct = 95 -> st.p95
      [] pct = 99 -> st.p99 [] OTHER -> st.p05

HighPercentile(st, pct) ==
    CASE pct = 90 -> st.p90 [] pct = 98 -> st.p98 [] pct = 95 -> st.p95
      [] pct = 75 -> st.p75 [] pct = 99 -> st.p99 [] OTHER -> st.p95

\* (low_clip, high_clip, gamma, use_local_enhancement) by strategy, lines 491-562
StrategyParams(st, strategy) ==
    LET iqr == st.p75 - st.p25
    IN  CASE strategy = "Robust" ->
               [low |-> Max2(Max2(st.p25 - Times2p5(iqr), st.p01), st.min_db),
                high |-> Min2(Min2(st.p75 + Times2p5(iqr), st.p99), st.max_db),
                gamma10 |-> 10, local |-> FALSE]
          [] strategy = "Adaptive" ->
               [low |-> LowPercentile(st, AdaptiveChoice(st)[1]),
                high |-> HighPercentile(st, AdaptiveChoice(st)[2]),
                gamma10 |-> AdaptiveChoice(st)[3], local |-> FALSE]
          [] strategy = "Equalized" ->
               [low |-> st.p01, high |-> st.p99, gamma10 |-> 10, local |-> FALSE]
          [] strategy = "Clahe" ->
               [low |-> st.p01, high |-> st.p99, gamma10 |-> 10, local |-> FALSE]
          [] strategy = "Tamed" ->
               [low |-> st.p25, high |-> st.p99, gamma10 |-> 10, local |-> FALSE]
          [] strategy = "Standard" ->
               [low |-> st.p05, high |-> st.p95, gamma10 |-> 10, local |-> FALSE]
          [] strategy = "Default" ->
               [low |-> st.p05, high |-> st.p95, gamma10 |-> 10, local |-> FALSE]

----------------------------------------------------------------------------
(* CLAHE: clahe_equalize_normalized, autoscale.rs                          *)
(*                                                                         *)
(* norm is the row-major sequence of normalized values <<num, den>>.       *)
(* Tile sizes are usize: r1 - r0 with r1 < r0 panics in a build with       *)
(* overflow checks and wraps around without them; checks says which.       *)

TILES == 8
CLIP_LIMIT == 2
CLAHE_BINS == 256

TileSize(len, tiles) == (len + tiles - 1) \div tiles
TileStart(t, tile) == t * tile
TileEnd(t, tile, len) == Min2((t + 1) * tile, len)

\* some tile has r1 < r0 or c1 < c0: the subtraction of lines 250, 254 underflows
TileUnderflow(rows, cols) ==
    \/ \E ty \in 0..(TILES - 1) :
          TileEnd(ty, TileSize(rows, TILES), rows) < TileStart(ty, TileSize(rows, TILES))
    \/ \E tx \in 0..(TILES - 1) :
          TileEnd(tx, TileSize(cols, TILES), cols) < TileStart(tx, TileSize(cols, TILES))

\* round(v.clamp(0, 1) * (num_bins - 1)), lines 262-265 and 320
NormBin(x) ==
    IF x[1] <= 0 THEN 0
    ELSE IF x[1] >= x[2] THEN CLAHE_BINS - 1
    ELSE Only({ Min2(q[1] + (IF 2 * q[2] >= x[2] THEN 1 ELSE 0), CLAHE_BINS - 1) :
                  q \in { MulDiv(x[1], CLAHE_BINS - 1, x[2]) } })

\* the valid pixels of tile (ty, tx): the loops of lines 259-261
TilePixels(rows, cols, m, ty, tx) ==
    { k \in 1..(rows * cols) :
        /\ m[k]
        /\ (k - 1) \div cols >= TileStart(ty, TileSize(rows, TILES))
        /\ (k - 1) \div cols < TileEnd(ty, TileSize(rows, TILES), rows)
        /\ (k - 1) % cols >= TileStart(tx, TileSize(cols, TILES))
        /\ (k - 1) % cols < TileEnd(tx, TileSize(cols, TILES), cols) }

\* hist[b] of the tile whose valid pixels are px; bins[k] is the bin of pixel k
TileHist(bins, px, b) == Cardinality({ k \in px : bins[k] = b })

\* clip_threshold = (clip_limit * tile_pixels / num_bins).max(1.0), in 1/256
\* (a wrapped tile size belongs to a tile without pixels, whose bins are all
\* 0 and below any threshold)
ClipThreshold256(rows, cols, ty, tx) ==
    LET tile_rows == TileEnd(ty, TileSize(rows, TILES), rows) - TileStart(ty, TileSize(rows, TILES))
        tile_cols == TileEnd(tx, TileSize(cols, TILES), cols) - TileStart(tx, TileSize(cols, TILES))
    IN  Max2(CLIP_LIMIT * tile_rows * tile_cols, CLAHE_BINS)

\* the bin after clipping: *h = clip_threshold as u32
ClippedBin(h, thr256) == IF CLAHE_BINS * h > thr256 THEN thr256 \div CLAHE_BINS ELSE h

\* excess, in 1/256
Excess256(bins, px, thr256) ==
    LET occ == { bins[k] : k \in px }                  \* the bins that are not 0
    IN  SumFn([b \in occ |->
                 IF CLAHE_BINS * TileHist(bins, px, b) > thr256
                 THEN CLAHE_BINS * TileHist(bins, px, b) - thr256 ELSE 0], occ)

AddPerBin(excess256) == excess256 \div (CLAHE_BINS * CLAHE_BINS)

\* (excess - add_per_bin * num_bins).round()
Remainder(excess256) ==
    (excess256 - AddPerBin(excess256) * CLAHE_BINS * CLAHE_BINS + CLAHE_BINS \div 2) \div CLAHE_BINS

\* the sum of the bins 0..b after clipping (sum of the occupied bins) and
\* redistribution of the excess e (add_per_bin to every bin, one more to the
\* first `remainder` bins, cyclically)
CumHist(bins, px, thr256, e, b) ==
    LET occ == { x \in { bins[k] : k \in px } : x <= b }
    IN  SumFn([n \in occ |-> ClippedBin(TileHist(bins, px, n), thr256)], occ)
          + (b + 1) * (AddPerBin(e) + Remainder(e) \div CLAHE_BINS)
          + Min2(b + 1, Remainder(e) % CLAHE_BINS)

\* cdfs[ty * tiles_x + tx][b] as <<num, den>>, lines 295-301
TileCdf(rows, cols, bins, m, ty, tx, b) ==
    Only({ <<CumHist(bins, px, thr, e, b), Max2(CumHist(bins, px, thr, e, CLAHE_BINS - 1), 1)>> :
             e \in { Excess256(bins, TilePixels(rows, cols, m, ty, tx),
                                ClipThreshold256(rows, cols, ty, tx)) },
             px \in { TilePixels(rows, cols, m, ty, tx) },
             thr \in { ClipThreshold256(rows, cols, ty, tx) } })

ClampTile(t) == Min2(Max2(t, 0), TILES - 1)

\* the bilinear blend of lines 322-329, weights dx = dxN / (2 tw) and
\* dy = dyN / (2 th), as <<num, den>>
Bilinear(cdf00, cdf01, cdf10, cdf11, dxN, dyN, tw, th) ==
    LET a00 == cdf00[1] * cdf01[2] * cdf10[2] * cdf11[2]
        a01 == cdf01[1] * cdf00[2] * cdf10[2] * cdf11[2]
        a10 == cdf10[1] * cdf00[2] * cdf01[2] * cdf11[2]
        a11 == cdf11[1] * cdf00[2] * cdf01[2] * cdf10[2]
        top    == a00 * (2 * tw - dxN) + a01 * dxN
        bottom == a10 * (2 * tw - dxN) + a11 * dxN
    IN  << top * (2 * th - dyN) + bottom * dyN,
           4 * th * tw * cdf00[2] * cdf01[2] * cdf10[2] * cdf11[2] >>

\* lines 308-313 along one axis, for position pos and tile size t:
\* rf = pos / t - 0.5 = (2 pos - t) / (2 t), the tile floor(rf).max(0) and
\* the weight rf - tile as a numerator over 2 t
BlendTile(pos, t) == Max2((2 * pos - t) \div (2 * t), 0)
BlendWeightN(pos, t) == (2 * pos - t) - 2 * t * BlendTile(pos, t)

\* sample_cdf(r, c, val) as <<num, den>>, lines 307-330
sample_cdf(rows, cols, bins, m, r, c) ==
    LET th  == TileSize(rows, TILES)
        tw  == TileSize(cols, TILES)
        ty  == BlendTile(r, th)
        tx  == BlendTile(c, tw)
        bin_pos == bins[r * cols + c + 1]
    IN  Only({ Bilinear(cdf00, cdf01, cdf10, cdf11,
                        BlendWeightN(c, tw), BlendWeightN(r, th), tw, th) :
                 cdf00 \in { TileCdf(rows, cols, bins, m, ClampTile(ty), ClampTile(tx), bin_pos) },
                 cdf01 \in { TileCdf(rows, cols, bins, m, ClampTile(ty), ClampTile(tx + 1), bin_pos) },
                 cdf10 \in { TileCdf(rows, cols, bins, m, ClampTile(ty + 1), ClampTile(tx), bin_pos) },
                 cdf11 \in { TileCdf(rows, cols, bins, m, ClampTile(ty + 1), ClampTile(tx + 1), bin_pos) } })

\* [status, out]: the equalized grid, or a panic when a tile size underflows
\* under overflow checks
clahe_equalize_normalized(rows, cols, norm, m, checks) ==
    IF checks /\ TileUnderflow(rows, cols) THEN [status |-> "panic", out |-> <<>>]
    ELSE [status |-> "ok",
          out |-> Only({ [k \in 1..(rows * cols) |->
                            IF m[k] THEN sample_cdf(rows, cols, bins, m, (k - 1) \div cols, (k - 1) % cols)
                            ELSE <<0, 1>>]
                       : bins \in { Tabulated([k \in 1..(rows * cols) |-> NormBin(norm[k])]) } })]

\* let range = (high_clip - low_clip).max(1.0), line 564
AdvancedClip(st, strategy) ==
    LET c == StrategyParams(st, strategy)
    IN  [low |-> c.low, high |-> c.high, gamma10 |-> c.gamma10,
         range |-> Max2(c.high - c.low, SCALE)]

\* the CLAHE path of autoscale_db_image_advanced, lines 572-608
ClaheNorm(g, m, c) ==
    [k \in 1..Len(g.data) |->
        IF m[((k - 1) \div g.cols) * g.cols + ((k - 1) % g.cols) + 1]
        THEN <<Min2(Max2(ToU(g.data[k]), c.low), c.high) - c.low, c.range>>
        ELSE <<0, 1>>]

\* the scaling of the equalized grid, lines 596-606
ClaheLevels(g, m, equalized, max_val) ==
    IF equalized.status = "panic" THEN [status |-> "panic", out |-> <<>>]
    ELSE [status |-> "ok",
          out |-> [k \in 1..Len(g.data) |->
                     IF m[((k - 1) \div g.cols) * g.cols + ((k - 1) % g.cols) + 1]
                     THEN TruncScaled(equalized.out[k], max_val)
                     ELSE 0]]

\* [status, out]: out the Vec<u16> returned, status "panic" when it unwinds
autoscale_db_image_advanced(g, m, bit_depth, strategy, checks) ==
    Only({ IF stats.valid_count = 0 THEN [status |-> "ok", out |-> Zeros(Len(g.data))]
           ELSE IF strategy = "Clahe" THEN
               Only({ ClaheLevels(g, m, equalized, MaxVal(bit_depth)) :
                        equalized \in { clahe_equalize_normalized(g.rows, g.cols, norm, m, checks) :
                                          norm \in { ClaheNorm(g, m, AdvancedClip(stats, strategy)) } } })
           ELSE LET c == AdvancedClip(stats, strategy)
                IN  [status |-> "ok",
                     out |-> ScaleLoop(g, m, c.low, c.high, c.range, c.gamma10, MaxVal(bit_depth))]
         : stats \in { compute_histogram_stats(g, m) } })

\* band-specific clip of autoscale_db_image_tamed_synrgb_u8, lines 721-729
TamedSynRgbClip(st, is_copol) ==
    LET low_clip == IF is_copol THEN Min2(st.p02, st.p05) ELSE st.p05
        high_clip == st.p99
    IN  [low |-> low_clip, high |-> high_clip, gamma10 |-> 10,
         range |-> Max2(high_clip - low_clip, SCALE)]

autoscale_db_image_tamed_synrgb_u8(g, m, is_copol) ==
    Only({ IF stats.valid_count = 0 THEN Zeros(Len(g.data))
           ELSE LET c == TamedSynRgbClip(stats, is_copol)
                IN  ScaleLoop(g, m, c.low, c.high, c.range, 10, 255)
         : stats \in { compute_histogram_stats(g, m) } })

\* scale_u16_to_u8: stretch [min, max] of the data onto 0..255, rounding
scale_u16_to_u8(data) ==
    IF data = <<>> THEN <<>>
    ELSE Only({ [k \in 1..Len(data) |->
                   IF max > min
                   THEN Min2(Max2((2 * 255 * (data[k] - min) + (max - min)) \div (2 * (max - min)), 0), 255)
                   ELSE Min2(Max2(data[k] - min, 0), 255)]
              : min \in { SeqMin(data) }, max \in { SeqMax(data) } })

\* the two convenience wrappers: (Vec<u8>, Option<Vec<u16>>)
autoscale_db_image_to_bitdepth(g, m, bit_depth) ==
    Only({ IF bit_depth = "U8"
           THEN [status |-> "ok", u8 |-> scale_u16_to_u8(v), some16 |-> FALSE, u16 |-> <<>>]
           ELSE [status |-> "ok", u8 |-> <<>>, some16 |-> TRUE, u16 |-> v]
         : v \in { autoscale_db_image(g, m, bit_depth) } })

autoscale_db_image_to_bitdepth_advanced(g, m, bit_depth, strategy, checks) ==
    Only({ IF v.status = "panic"
           THEN [status |-> "panic", u8 |-> <<>>, some16 |-> FALSE, u16 |-> <<>>]
           ELSE IF bit_depth = "U8"
           THEN [status |-> "ok", u8 |-> scale_u16_to_u8(v.out), some16 |-> FALSE, u16 |-> <<>>]
           ELSE [status |-> "ok", u8 |-> <<>>, some16 |-> TRUE, u16 |-> v.out]
         : v \in { autoscale_db_image_advanced(g, m, bit_depth, strategy, checks) } })

\* process_scalar_data_pipeline, pipeline.rs lines 49-64: Standard goes to
\* the plain wrapper, every other strategy to the advanced one
process_scalar_data_pipeline(g, m, bit_depth, strategy, checks) ==
    IF strategy = "Standard" THEN autoscale_db_image_to_bitdepth(g, m, bit_depth)
    ELSE autoscale_db_image_to_bitdepth_advanced(g, m, bit_depth, strategy, checks)

\* what a call left behind: the call and the buffers it returned
ScResult(fn, bit_depth, strategy, r) ==
    [status |-> r.status, fn |-> fn, bit_depth |-> bit_depth, strategy |-> strategy,
     u8 |-> r.u8, some16 |-> r.some16, u16 |-> r.u16]

ScNotCalled ==
    [status |-> "none", fn |-> "none", bit_depth |-> "none", strategy |-> "none",
     u8 |-> <<>>, some16 |-> FALSE, u16 |-> <<>>]

AutoscaleDbImage ==
    /\ scRes.status = "none"
    /\ \E bd \in BitDepths :
          \E out \in { autoscale_db_image(db, valid, bd) } :
             scRes' = ScResult("autoscale_db_image", bd, "Standard",
                        [status |-> "ok", u8 |-> <<>>, some16 |-> TRUE, u16 |-> out])
    /\ UNCHANGED <<db, valid, opsVars, dbVars, rgbVars, geoVars, clipVars, saveVars, batchVars, guiVars>>

AutoscaleDbImageAdvanced ==
    /\ scRes.status = "none"
    /\ \E bd \in BitDepths, st \in Strategies :
          \E checks \in Builds(st) :
           \E r \in { autoscale_db_image_advanced(db, valid, bd, st, checks) } :
             scRes' = ScResult("autoscale_db_image_advanced", bd, st,
                        [status |-> r.status, u8 |-> <<>>, some16 |-> r.status = "ok",
                         u16 |-> r.out])
    /\ UNCHANGED <<db, valid, opsVars, dbVars, rgbVars, geoVars, clipVars, saveVars, batchVars, guiVars>>

AutoscaleDbImageToBitdepth ==
    /\ scRes.status = "none"
    /\ \E bd \in BitDepths :
          \E r \in { autoscale_db_image_to_bitdepth(db, valid, bd) } :
             scRes' = ScResult("autoscale_db_image_to_bitdepth", bd, "Standard", r)
    /\ UNCHANGED <<db, valid, opsVars, dbVars, rgbVars, geoVars, clipVars, saveVars, batchVars, guiVars>>

AutoscaleDbImageToBitdepthAdvanced ==
    /\ scRes.status = "none"
    /\ \E bd \in BitDepths, st \in Strategies :
          \E checks \in Builds(st) :
           \E r \in { autoscale_db_image_to_bitdepth_advanced(db, valid, bd, st, checks) } :
             scRes' = ScResult("autoscale_db_image_to_bitdepth_advanced", bd, st, r)
    /\ UNCHANGED <<db, valid, opsVars, dbVars, rgbVars, geoVars, clipVars, saveVars, batchVars, guiVars>>

AutoscaleDbImageTamedSynRgbU8 ==
    /\ scRes.status = "none"
    /\ \E is_copol \in BOOLEAN :
          \E out \in { autoscale_db_image_tamed_synrgb_u8(db, valid, is_copol) } :
             scRes' = ScResult("autoscale_db_image_tamed_synrgb_u8", "U8",
                        IF is_copol THEN "copol" ELSE "crosspol",
                        [status |-> "ok", some16 |-> FALSE, u16 |-> <<>>, u8 |-> out])
    /\ UNCHANGED <<db, valid, opsVars, dbVars, rgbVars, geoVars, clipVars, saveVars, batchVars, guiVars>>

ProcessScalarDataPipeline ==
    /\ scRes.status = "none"
    /\ \E bd \in BitDepths, st \in Strategies :
          \E checks \in Builds(st) :
           \E r \in { process_scalar_data_pipeline(db, valid, bd, st, checks) } :
             scRes' = ScResult("process_scalar_data_pipeline", bd, st, r)
    /\ UNCHANGED <<db, valid, opsVars, dbVars, rgbVars, geoVars, clipVars, saveVars, batchVars, guiVars>>

NextScale ==
    \/ AutoscaleDbImage
    \/ AutoscaleDbImageAdvanced
    \/ AutoscaleDbImageToBitdepth
    \/ AutoscaleDbImageToBitdepthAdvanced
    \/ AutoscaleDbImageTamedSynRgbU8
    \/ ProcessScalarDataPipeline

----------------------------------------------------------------------------
(* Synthetic RGB compositor (synthetic_rgb.rs)                             *)

\* f32 products, quotients and powers are taken in a binary floating format
\* with a mantissa of FBITS bits, every result to the value below: <<m, e>>
\* is m * 2^e with 2^(FBITS-1) <= m < 2^FBITS, and <<0, 0>> is zero.  A
\* table entry computed with it lies within one level of the f32 entry, and
\* 0 and 1 and the order of values are kept exactly.
FBITS == 15

RECURSIVE FNorm(_, _)
FNorm(m, e) ==
    IF m = 0 THEN <<0, 0>>
    ELSE IF m >= 2^FBITS THEN FNorm(m \div 2, e + 1)
    ELSE IF m < 2^(FBITS - 1) THEN FNorm(m * 2, e - 1)
    ELSE <<m, e>>

\* the product of two mantissas has 2 * FBITS - 1 or 2 * FBITS bits
FMul(a, b) ==
    IF a[1] = 0 \/ b[1] = 0 THEN <<0, 0>>
    ELSE IF a[1] * b[1] >= 2^(2 * FBITS - 1)
    THEN <<(a[1] * b[1]) \div 2^FBITS, a[2] + b[2] + FBITS>>
    ELSE <<(a[1] * b[1]) \div 2^(FBITS - 1), a[2] + b[2] + FBITS - 1>>

\* n / d for integers 0 <= n and 1 <= d < 2^FBITS
FRatio(n, d) ==
    Only({ FNorm((a[1] * 2^FBITS) \div d, a[2] - FBITS) : a \in { FNorm(n, 0) } })

RECURSIVE FPow(_, _)
FPow(a, p) ==
    IF p = 1 THEN a
    ELSE Only({ FMul(a, h) : h \in { FPow(a, p - 1) } })

FLeq(a, b) ==
    \/ a[1] = 0
    \/ b[1] # 0 /\ (a[2] < b[2] \/ (a[2] = b[2] /\ a[1] <= b[1]))

\* (y * sn / sd).clamp(0.0, 255.0).round() as u8 for the y >= 0 with
\* y^q = yq: the largest level L of lo..hi with L - 1/2 <= y * sn / sd, that
\* is ((2L - 1) * sd / (2 * sn))^q <= yq, found by halving (level lo has it)
RECURSIVE LevelIn(_, _, _, _, _, _)
LevelIn(lo, hi, yq, q, sn, sd) ==
    IF lo = hi THEN lo
    ELSE LET mid == (lo + hi + 1) \div 2
         IN  IF FLeq(FPow(FRatio((2 * mid - 1) * sd, 2 * sn), q), yq)
             THEN LevelIn(mid, hi, yq, q, sn, sd)
             ELSE LevelIn(lo, mid - 1, yq, q, sn, sd)

\* ((n / d).powf(p / q) * 255.0).round().clamp(0.0, 255.0) as u8, 0 <= n <= d
GammaLevel(n, d, p, q) ==
    IF n = 0 THEN 0
    ELSE Only({ LevelIn(0, 255, xp, q, 255, 1) : xp \in { FPow(FRatio(n, d), p) } })

\* the bytes of a band, and the table indices (v1 << 8) | v2 of two bands
BytesOf(data) == { data[i] : i \in 1..Len(data) }
LutIndex(v1, v2) == v1 * 256 + v2
IndexHigh(idx) == idx \div 256
IndexLow(idx) == idx % 256
IndicesOf(band1_data, band2_data) ==
    { LutIndex(band1_data[i], band2_data[i]) : i \in 1..Len(band1_data) }

\* the default tables: GAMMA_R = 0.7, GAMMA_G = 0.9 (lines 21-30); of a
\* table the entries the composition reads are built
lut_r(used) == Table([v \in used |-> GammaLevel(v, 255, 7, 10)])
lut_g(used) == Table([v \in used |-> GammaLevel(v, 255, 9, 10)])

\* (ratio.powf(0.1) * 255 * gain).clamp(0.0, 255.0).round() as u8 for
\* ratio = num / den and 255 * gain = sn / sd.  A zero denominator makes the
\* ratio inf (level 255) or, for 0 / 0, NaN (`as u8` of NaN is 0).
BlueLevel(num, den, sn, sd) ==
    IF den = 0 THEN (IF num = 0 THEN 0 ELSE 255)
    ELSE IF num = 0 THEN 0
    ELSE LevelIn(0, 255, FRatio(num, den), 10, sn, sd)

\* the blue table without the guard for b2 == 0
lut_b_NoZeroGuard(used, r, g) ==
    Table([idx \in used |-> BlueLevel(r[IndexHigh(idx)], g[IndexLow(idx)], 306, 5)])

\* lut_b[(b1 << 8) | b2] of the default algorithm, 255 * 0.24 = 306 / 5
\* (lines 34-51)
lut_b(used, r, g) ==
    Table([idx \in used |->
             IF IndexLow(idx) = 0 THEN 0
             ELSE BlueLevel(r[IndexHigh(idx)], g[IndexLow(idx)], 306, 5)])

\* rgb_data of pixels whose <<r, g, b>> are px[i]: three pushes per pixel
Interleaved(px) ==
    [k \in 1..(3 * Len(px)) |-> px[(k - 1) \div 3 + 1][((k - 1) % 3) + 1]]

\* create_synthetic_rgb on bands of equal length (debug_assert_eq, line 11)
create_synthetic_rgb(band1_data, band2_data) ==
    Only({ Only({ Interleaved([i \in 1..Len(band1_data) |->
                                 <<r[band1_data[i]], g[band2_data[i]],
                                   b[LutIndex(band1_data[i], band2_data[i])]>>])
                : b \in { lut_b(IndicesOf(band1_data, band2_data), r, g) } })
         : r \in { lut_r(BytesOf(band1_data)) }, g \in { lut_g(BytesOf(band2_data)) } })

SynModes == {"Default", "RgbRatio", "SarUrban", "Enhanced"}

\* create_synthetic_rgb_by_mode: every arm calls create_synthetic_rgb
create_synthetic_rgb_by_mode(mode, band1_data, band2_data) ==
    CASE mode = "Default"  -> create_synthetic_rgb(band1_data, band2_data)
      [] mode = "RgbRatio" -> create_synthetic_rgb(band1_data, band2_data)
      [] mode = "SarUrban" -> create_synthetic_rgb(band1_data, band2_data)
      [] mode = "Enhanced" -> create_synthetic_rgb(band1_data, band2_data)

\* cumulative after bin i of the combined histogram (lines 92-97, 104)
Cumulative(band1_data, band2_data, i) ==
    Cardinality({ k \in 1..Len(band1_data) : band1_data[k] <= i })
      + Cardinality({ k \in 1..Len(band2_data) : band2_data[k] <= i })

\* ((total_count as f64) * 0.05).round(): halves round away from zero, and
\* the product is a half exactly when total_count / 20 is
TargetCount(total_count) == (total_count + 10) \div 20

\* floor_value: the first bin i of 0..255 with cumulative >= target_count
\* (lines 101-109).  cumulative changes at the bytes of the bands only, so
\* the first such bin is bin 0 or one of them.
FloorValue(band1_data, band2_data) ==
    LET target_count == TargetCount(Len(band1_data) + Len(band2_data))
        hit == { i \in {0} \cup { band1_data[k] : k \in 1..Len(band1_data) }
                           \cup { band2_data[k] : k \in 1..Len(band2_data) } :
                   Cumulative(band1_data, band2_data, i) >= target_count }
    IN  CHOOSE i \in hit : \A j \in hit : i <= j

\* the cushion without the cap
FloorWithCushion_NoCap(floor_value) == floor_value + 3

\* floor_with_cushion = floor_value.saturating_add(3).min(40), lines 111-113
FloorWithCushion(floor_value) == Min2(floor_value + 3, 40)

\* the floor-shifted tables: GAMMA_R_SUPP = 1.15, GAMMA_G_SUPP = 1.10
\* (lines 119-135)
lut_r_supp(used, floor) ==
    Table([v \in used |->
             IF v <= floor THEN 0 ELSE GammaLevel(v - floor, Max2(255 - floor, 1), 23, 20)])
lut_g_supp(used, floor) ==
    Table([v \in used |->
             IF v <= floor THEN 0 ELSE GammaLevel(v - floor, Max2(255 - floor, 1), 11, 10)])

\* lut_b of the suppressed variant: ratio = (r + EPS) / (g + EPS), EPS = 8,
\* 255 * 0.18 = 459 / 10 (lines 138-154)
lut_b_supp(used, r, g) ==
    Table([idx \in used |-> BlueLevel(r[IndexHigh(idx)] + 8, g[IndexLow(idx)] + 8, 459, 10)])

\* one pixel of the suppressed composition, lines 158-175
SuppressedPixel(v1_raw, v2_raw, floor, r, g, b) ==
    IF v1_raw <= floor /\ v2_raw <= floor THEN <<0, 0, 0>>
    ELSE <<r[v1_raw], g[v2_raw], b[LutIndex(v1_raw, v2_raw)]>>

SuppressedWithFloor(band1_data, band2_data, floor) ==
    Only({ Only({ Interleaved([i \in 1..Len(band1_data) |->
                                 SuppressedPixel(band1_data[i], band2_data[i], floor, r, g, b)])
                : b \in { lut_b_supp(IndicesOf(band1_data, band2_data), r, g) } })
         : r \in { lut_r_supp(BytesOf(band1_data), floor) },
           g \in { lut_g_supp(BytesOf(band2_data), floor) } })

create_synthetic_rgb_suppressed(band1_data, band2_data) ==
    Only({ SuppressedWithFloor(band1_data, band2_data, floor)
         : floor \in { FloorWithCushion(FloorValue(band1_data, band2_data)) } })

\* create_synthetic_rgb_by_mode_and_strategy, lines 182-197
create_synthetic_rgb_by_mode_and_strategy(mode, strategy, band1_data, band2_data) ==
    IF strategy \in {"Tamed", "Clahe"}
    THEN CASE mode \in {"Default", "RgbRatio", "SarUrban", "Enhanced"} ->
                create_synthetic_rgb_suppressed(band1_data, band2_data)
    ELSE create_synthetic_rgb_by_mode(mode, band1_data, band2_data)

\* the three placeholders: todo!() panics, no value is returned (lines 200-212)
create_synthetic_rgb_rgb_ratio(band1_data, band2_data) == [status |-> "panic", rgb |-> <<>>]
create_synthetic_rgb_urban(band1_data, band2_data) == [status |-> "panic", rgb |-> <<>>]
create_synthetic_rgb_enhanced(band1_data, band2_data) == [status |-> "panic", rgb |-> <<>>]

\* the composition step of the multiband JPEG save path (save.rs 363) and of
\* the in-memory buffer API (api/mod.rs 223), on the two final 8-bit bands
save_processed_multiband_image_sequential_rgb(syn_mode, strategy, final_u8_band1, final_u8_band2) ==
    create_synthetic_rgb_by_mode(syn_mode, final_u8_band1, final_u8_band2)

process_safe_to_buffer_rgb(autoscale, final1_u8, final2_u8) ==
    create_synthetic_rgb(final1_u8, final2_u8)

RgbResult(fn, mode, strategy, status, rgb) ==
    [status |-> status, fn |-> fn, mode |-> mode, strategy |-> strategy, rgb |-> rgb]

RgbNotCalled == RgbResult("none", "none", "none", "none", <<>>)

CreateSyntheticRgb ==
    /\ rgbRes.status = "none"
    /\ \E out \in { create_synthetic_rgb(band1, band2) } :
          rgbRes' = RgbResult("create_synthetic_rgb", "none", "none", "ok", out)
    /\ UNCHANGED <<band1, band2, opsVars, dbVars, scaleVars, geoVars, clipVars, saveVars, batchVars, guiVars>>

CreateSyntheticRgbSuppressed ==
    /\ rgbRes.status = "none"
    /\ \E out \in { create_synthetic_rgb_suppressed(band1, band2) } :
          rgbRes' = RgbResult("create_synthetic_rgb_suppressed", "none", "none", "ok", out)
    /\ UNCHANGED <<band1, band2, opsVars, dbVars, scaleVars, geoVars, clipVars, saveVars, batchVars, guiVars>>

CreateSyntheticRgbByMode ==
    /\ rgbRes.status = "none"
    /\ \E mode \in SynModes :
          \E out \in { create_synthetic_rgb_by_mode(mode, band1, band2) } :
             rgbRes' = RgbResult("create_synthetic_rgb_by_mode", mode, "none", "ok", out)
    /\ UNCHANGED <<band1, band2, opsVars, dbVars, scaleVars, geoVars, clipVars, saveVars, batchVars, guiVars>>

CreateSyntheticRgbByModeAndStrategy ==
    /\ rgbRes.status = "none"
    /\ \E mode \in SynModes, st \in Strategies :
          \E out \in { create_synthetic_rgb_by_mode_and_strategy(mode, st, band1, band2) } :
             rgbRes' = RgbResult("create_synthetic_rgb_by_mode_and_strategy", mode, st, "ok", out)
    /\ UNCHANGED <<band1, band2, opsVars, dbVars, scaleVars, geoVars, clipVars, saveVars, batchVars, guiVars>>

CreateSyntheticRgbRgbRatio ==
    /\ rgbRes.status = "none"
    /\ \E r \in { create_synthetic_rgb_rgb_ratio(band1, band2) } :
          rgbRes' = RgbResult("create_synthetic_rgb_rgb_ratio", "none", "none", r.status, r.rgb)
    /\ UNCHANGED <<band1, band2, opsVars, dbVars, scaleVars, geoVars, clipVars, saveVars, batchVars, guiVars>>

CreateSyntheticRgbUrban ==
    /\ rgbRes.status = "none"
    /\ \E r \in { create_synthetic_rgb_urban(band1, band2) } :
          rgbRes' = RgbResult("create_synthetic_rgb_urban", "none", "none", r.status, r.rgb)
    /\ UNCHANGED <<band1, band2, opsVars, dbVars, scaleVars, geoVars, clipVars, saveVars, batchVars, guiVars>>

CreateSyntheticRgbEnhanced ==
    /\ rgbRes.status = "none"
    /\ \E r \in { create_synthetic_rgb_enhanced(band1, band2) } :
          rgbRes' = RgbResult("create_synthetic_rgb_enhanced", "none", "none", r.status, r.rgb)
    /\ UNCHANGED <<band1, band2, opsVars, dbVars, scaleVars, geoVars, clipVars, saveVars, batchVars, guiVars>>

\* the two entry points, from their final bands on
SaveProcessedMultibandImageSequential ==
    /\ rgbRes.status = "none"
    /\ \E mode \in SynModes, st \in Strategies :
          \E out \in { save_processed_multiband_image_sequential_rgb(mode, st, band1, band2) } :
             rgbRes' = RgbResult("save_processed_multiband_image_sequential", mode, st, "ok", out)
    /\ UNCHANGED <<band1, band2, opsVars, dbVars, scaleVars, geoVars, clipVars, saveVars, batchVars, guiVars>>

ProcessSafeToBuffer ==
    /\ rgbRes.status = "none"
    /\ \E st \in Strategies :
          \E out \in { process_safe_to_buffer_rgb(st, band1, band2) } :
             rgbRes' = RgbResult("process_safe_to_buffer", "none", st, "ok", out)
    /\ UNCHANGED <<band1, band2, opsVars, dbVars, scaleVars, geoVars, clipVars, saveVars, batchVars, guiVars>>

NextRgb ==
    \/ CreateSyntheticRgb
    \/ CreateSyntheticRgbSuppressed

NextCompose ==
    \/ CreateSyntheticRgbByMode
    \/ CreateSyntheticRgbByModeAndStrategy
    \/ CreateSyntheticRgbRgbRatio
    \/ CreateSyntheticRgbUrban
    \/ CreateSyntheticRgbEnhanced
    \/ SaveProcessedMultibandImageSequential
    \/ ProcessSafeToBuffer

----------------------------------------------------------------------------
(* Geometric transform: core/processing/resize.rs, padding.rs              *)

\* Option<usize> and Option<&[u16]>
NoTarget == [some |-> FALSE, v |-> 0]
SomeTarget(size) == [some |-> TRUE, v |-> size]
NoBuffer == [some |-> FALSE, v |-> <<>>]
SomeBuffer(data) == [some |-> TRUE, v |-> data]

\* calculate_resize_dimensions (resize.rs 6-30): <<cols, rows>>.  The f64
\* product short_side * (target_size / long_side) is rounded half away from
\* zero; for the sides used here every half is exact in binary.
calculate_resize_dimensions(original_cols, original_rows, target_size) ==
    LET short_side == Min2(original_rows, original_cols)
        long_side == Max2(original_rows, original_cols)
        new_short_side == (2 * short_side * target_size + long_side) \div (2 * long_side)
    IN IF target_size > long_side
       THEN <<original_cols, original_rows>>
       ELSE IF original_cols > original_rows
            THEN <<target_size, new_short_side>>
            ELSE <<new_short_side, target_size>>

\* u16::to_le_bytes over a slice (resize.rs 67-72) and u16::from_le_bytes
\* over chunks_exact(2) (resize.rs 84-87)
ToLeBytes(data) ==
    [k \in 1..(2 * Len(data)) |->
        IF k % 2 = 1 THEN data[(k + 1) \div 2] % 256 ELSE data[k \div 2] \div 256]

FromLeBytes(bytes) ==
    [k \in 1..(Len(bytes) \div 2) |-> bytes[2 * k - 1] + 256 * bytes[2 * k]]

\* The pixels a resampled image may be filled with, as bytes: for U16 one
\* sample with a non-zero low byte (258) and one with a zero low byte (512).
ResampledPixels(pixel_type) ==
    IF pixel_type = "U8" THEN {<<9>>, <<200>>} ELSE {<<2, 1>>, <<0, 2>>}

\* Image::from_vec_u8, Image::new, Resizer::resize and into_vec of the
\* fast_image_resize crate (resize.rs 43-52, 74-83).  The crate is not part
\* of this repository: a call either reports an error or gives back a buffer
\* of target_cols * target_rows pixels, here one filled with a single pixel
\* or, when the size does not change, possibly the source itself.
Resizer(src_bytes, original_cols, original_rows, target_cols, target_rows, pixel_type) ==
    {[ok |-> FALSE, bytes |-> <<>>]}
    \cup {[ok |-> TRUE,
           bytes |-> [k \in 1..(target_cols * target_rows * Len(px)) |->
                         px[((k - 1) % Len(px)) + 1]]]
          : px \in ResampledPixels(pixel_type)}
    \cup (IF target_cols = original_cols /\ target_rows = original_rows
          THEN {[ok |-> TRUE, bytes |-> src_bytes]}
          ELSE {})

\* resize_u8_image (resize.rs 32-53): the set of possible results
resize_u8_image(data, original_cols, original_rows, target_cols, target_rows) ==
    { [ok |-> o.ok, data |-> o.bytes]
      : o \in Resizer(data, original_cols, original_rows, target_cols, target_rows, "U8") }

\* resize_u16_image (resize.rs 55-89): PixelType::U16 on little-endian bytes
resize_u16_image(data, original_cols, original_rows, target_cols, target_rows) ==
    { [ok |-> o.ok, data |-> FromLeBytes(o.bytes)]
      : o \in Resizer(ToLeBytes(data), original_cols, original_rows,
                      target_cols, target_rows, "U16") }

\* padding.rs 28 and 41: where row `row` of the source starts in the canvas
DstOffset_NoColumnPad(row, pad_rows, max_dim, pad_cols) == (row + pad_rows) * max_dim

DstOffset(row, pad_rows, max_dim, pad_cols) == (row + pad_rows) * max_dim + pad_cols

\* the row loop of add_padding_to_square (padding.rs 26-32, 39-45), 0-based row
RECURSIVE CopyRows(_, _, _, _, _, _, _, _)
CopyRows(padded, data, row, rows, cols, max_dim, pad_rows, pad_cols) ==
    IF row >= rows THEN padded
    ELSE LET src_offset == row * cols
             dst_offset == DstOffset(row, pad_rows, max_dim, pad_cols)
         IN CopyRows(Tabulated([k \in 1..Len(padded) |->
                                   IF k - 1 - dst_offset \in 0..(cols - 1)
                                   THEN data[src_offset + (k - 1 - dst_offset) + 1]
                                   ELSE padded[k]]),
                     data, row + 1, rows, cols, max_dim, pad_rows, pad_cols)

U16Required == "U16 data required for U16 bit depth"

\* add_padding_to_square (padding.rs 5-49)
add_padding_to_square(u8_data, u16_data, cols, rows, bit_depth) ==
    LET max_dim == Max2(cols, rows)
        pad_cols == (max_dim - cols) \div 2
        pad_rows == (max_dim - rows) \div 2
        canvas == Repeat(0, max_dim * max_dim)
    IN IF bit_depth = "U8"
       THEN [ok |-> TRUE, error |-> "",
             u8 |-> CopyRows(canvas, u8_data, 0, rows, cols, max_dim, pad_rows, pad_cols),
             u16 |-> NoBuffer]
       ELSE IF ~u16_data.some
            THEN [ok |-> FALSE, error |-> U16Required, u8 |-> <<>>, u16 |-> NoBuffer]
            ELSE [ok |-> TRUE, error |-> "",
                  u8 |-> <<>>,
                  u16 |-> SomeBuffer(CopyRows(canvas, u16_data.v, 0, rows, cols,
                                               max_dim, pad_rows, pad_cols))]

\* A scale is the pair <<numerator, denominator>> of the f64 quotient.
One == <<1, 1>>
IsOne(scale) == scale[1] = scale[2]

\* a grid as the geometric functions pass it on
GeoGrid(cols, rows, u8, u16) == [cols |-> cols, rows |-> rows, u8 |-> u8, u16 |-> u16]

\* Results of the geometric entry points.  Two fields are not in the code:
\* resampler_calls lists the calls of resize_u8_image and resize_u16_image
\* made on the way, each by the PixelType it resampled in, and unpadded is
\* the grid as it was before padding.
GeoErr(error, calls) ==
    [status |-> "err", error |-> error, cols |-> 0, rows |-> 0,
     u8 |-> <<>>, u16 |-> NoBuffer, scale_x |-> One, scale_y |-> One,
     pad_left |-> 0, pad_top |-> 0, resampler_calls |-> calls,
     unpadded |-> GeoGrid(0, 0, <<>>, NoBuffer)]

GeoOk(cols, rows, u8, u16, scale_x, scale_y, pad_left, pad_top, calls) ==
    [status |-> "ok", error |-> "", cols |-> cols, rows |-> rows,
     u8 |-> u8, u16 |-> u16, scale_x |-> scale_x, scale_y |-> scale_y,
     pad_left |-> pad_left, pad_top |-> pad_top, resampler_calls |-> calls,
     unpadded |-> GeoGrid(cols, rows, u8, u16)]

\* the three pad branches of resize_image_data_with_meta
\* (resize.rs 119-132, 172-185, 199-207)
PadBranch(u8_data, u16_data, cols, rows, bit_depth, scale_x, scale_y, calls) ==
    LET padded == add_padding_to_square(u8_data, u16_data, cols, rows, bit_depth)
        final_dim == Max2(cols, rows)
        pad_left == (final_dim - cols) \div 2
        pad_top == (final_dim - rows) \div 2
    IN IF ~padded.ok THEN GeoErr(padded.error, calls)
       ELSE [GeoOk(final_dim, final_dim, padded.u8, padded.u16,
                   scale_x, scale_y, pad_left, pad_top, calls)
             EXCEPT !.unpadded = GeoGrid(cols, rows, u8_data, u16_data)]

\* resize.rs 147-197: the resampling branch, one result per resampler outcome
ResizeBranch(u8_data, u16_data, original_cols, original_rows, size, bit_depth, pad) ==
    LET new == calculate_resize_dimensions(original_cols, original_rows, size)
        new_cols == new[1]
        new_rows == new[2]
        scale_x == <<new_cols, original_cols>>
        scale_y == <<new_rows, original_rows>>
        After(resized_u8, resized_u16) ==
            IF pad
            THEN PadBranch(resized_u8, resized_u16, new_cols, new_rows, bit_depth,
                           scale_x, scale_y, <<bit_depth>>)
            ELSE GeoOk(new_cols, new_rows, resized_u8, resized_u16,
                       scale_x, scale_y, 0, 0, <<bit_depth>>)
    IN IF bit_depth = "U8"
       THEN { IF ~r.ok THEN GeoErr("fast_image_resize", <<bit_depth>>) ELSE After(r.data, NoBuffer)
              : r \in resize_u8_image(u8_data, original_cols, original_rows,
                                      new_cols, new_rows) }
       ELSE IF ~u16_data.some
            THEN { GeoErr(U16Required, <<>>) }
            ELSE { IF ~r.ok THEN GeoErr("fast_image_resize", <<bit_depth>>)
                   ELSE After(<<>>, SomeBuffer(r.data))
                   : r \in resize_u16_image(u16_data.v, original_cols, original_rows,
                                            new_cols, new_rows) }

\* resize_image_data_with_meta (resize.rs 91-236): the set of possible results
resize_image_data_with_meta(u8_data, u16_data, original_cols, original_rows, target_size, bit_depth, pad) ==
    IF target_size.some
    THEN IF Max2(original_cols, original_rows) = target_size.v
         THEN IF pad
              THEN { PadBranch(u8_data, u16_data, original_cols, original_rows,
                               bit_depth, One, One, <<>>) }
              ELSE { GeoOk(original_cols, original_rows,
                           IF bit_depth = "U8" THEN u8_data ELSE <<>>,
                           IF bit_depth = "U16" THEN u16_data ELSE NoBuffer,
                           One, One, 0, 0, <<>>) }
         ELSE ResizeBranch(u8_data, u16_data, original_cols, original_rows,
                           target_size.v, bit_depth, pad)
    ELSE IF pad
         THEN { PadBranch(u8_data, u16_data, original_cols, original_rows,
                          bit_depth, One, One, <<>>) }
         ELSE IF bit_depth = "U8"
              THEN { GeoOk(original_cols, original_rows, u8_data, NoBuffer,
                           One, One, 0, 0, <<>>) }
              ELSE IF ~u16_data.some
                   THEN { GeoErr(U16Required, <<>>) }
                   ELSE { GeoOk(original_cols, original_rows, <<>>, u16_data,
                                One, One, 0, 0, <<>>) }

\* resize_image_data (resize.rs 238-257): the same, without the meta fields
resize_image_data(u8_data, u16_data, original_cols, original_rows, target_size, bit_depth, pad) ==
    { [r EXCEPT !.scale_x = One, !.scale_y = One, !.pad_left = 0, !.pad_top = 0]
      : r \in resize_image_data_with_meta(u8_data, u16_data, original_cols,
                                          original_rows, target_size, bit_depth, pad) }

NoImage == [cols |-> 0, rows |-> 0, u8_data |-> <<>>, u16_data |-> NoBuffer]

GeoCall(fn, target_size, bit_depth, pad, r) ==
    [fn |-> fn, target_size |-> target_size, bit_depth |-> bit_depth, pad |-> pad, r |-> r]

GeoNotCalled == GeoCall("none", NoTarget, "U8", FALSE, GeoErr("", <<>>))

MaxSide == 3

\* no target, or a long side from 1 to one more than the longest side
Targets == {NoTarget} \cup {SomeTarget(t) : t \in 1..(MaxSide + 1)}

\* An 8-bit call is given cols * rows bytes, as every caller does.
HasBytesFor(bit_depth) == bit_depth = "U8" => Len(img.u8_data) = img.cols * img.rows

ResizeImageDataWithMeta ==
    /\ geoRes.fn = "none"
    /\ \E target_size \in Targets, bit_depth \in BitDepths, pad \in BOOLEAN :
          /\ HasBytesFor(bit_depth)
          /\ \E r \in resize_image_data_with_meta(img.u8_data, img.u16_data, img.cols,
                                                  img.rows, target_size, bit_depth, pad) :
                geoRes' = GeoCall("resize_image_data_with_meta", target_size, bit_depth, pad, r)
    /\ UNCHANGED <<img, opsVars, dbVars, scaleVars, rgbVars, clipVars, saveVars, batchVars, guiVars>>

ResizeImageData ==
    /\ geoRes.fn = "none"
    /\ \E target_size \in Targets, bit_depth \in BitDepths, pad \in BOOLEAN :
          /\ HasBytesFor(bit_depth)
          /\ \E r \in resize_image_data(img.u8_data, img.u16_data, img.cols,
                                        img.rows, target_size, bit_depth, pad) :
                geoRes' = GeoCall("resize_image_data", target_size, bit_depth, pad, r)
    /\ UNCHANGED <<img, opsVars, dbVars, scaleVars, rgbVars, clipVars, saveVars, batchVars, guiVars>>

AddPaddingToSquare ==
    /\ geoRes.fn = "none"
    /\ \E bit_depth \in BitDepths :
          /\ HasBytesFor(bit_depth)
          /\ \E p \in { add_padding_to_square(img.u8_data, img.u16_data, img.cols,
                                              img.rows, bit_depth) } :
                geoRes' = GeoCall("add_padding_to_square", NoTarget, bit_depth, TRUE,
                                  IF p.ok
                                  THEN [GeoOk(Max2(img.cols, img.rows), Max2(img.cols, img.rows),
                                              p.u8, p.u16, One, One, 0, 0, <<>>)
                                        EXCEPT !.unpadded = GeoGrid(img.cols, img.rows,
                                                                    img.u8_data, img.u16_data)]
                                  ELSE GeoErr(p.error, <<>>))
    /\ UNCHANGED <<img, opsVars, dbVars, scaleVars, rgbVars, clipVars, saveVars, batchVars, guiVars>>

CalculateResizeDimensions ==
    /\ geoRes.fn = "none"
    /\ \E target_size \in 1..(MaxSide + 1) :
          \E new \in { calculate_resize_dimensions(img.cols, img.rows, target_size) } :
             geoRes' = GeoCall("calculate_resize_dimensions", SomeTarget(target_size), "U8", FALSE,
                               GeoOk(new[1], new[2], <<>>, NoBuffer, One, One, 0, 0, <<>>))
    /\ UNCHANGED <<img, opsVars, dbVars, scaleVars, rgbVars, clipVars, saveVars, batchVars, guiVars>>

NextGeo ==
    \/ ResizeImageDataWithMeta
    \/ ResizeImageData
    \/ AddPaddingToSquare
    \/ CalculateResizeDimensions

----------------------------------------------------------------------------
(* CLAHE, one tile: clipping and redistribution (autoscale.rs 271-292)     *)
(*                                                                         *)
(* hist is the sequence of the 256 bins, hist[b + 1] the count of bin b.   *)
(* As above, the threshold and the excess are kept in units of 1/256,      *)
(* in which every f64 value of these lines is a whole number.              *)

\* the sum of s[lo..hi]
RECURSIVE SumRange(_, _, _)
SumRange(s, lo, hi) ==
    IF lo > hi THEN 0
    ELSE IF lo = hi THEN s[lo]
    ELSE SumRange(s, lo, (lo + hi) \div 2) + SumRange(s, (lo + hi) \div 2 + 1, hi)

Mass(hist) == SumRange(hist, 1, Len(hist))

\* clip_threshold = (clip_limit * avg_count_per_bin(..)).max(1.0), lines 242-245, 272-273
TileClipThreshold256(tile_rows, tile_cols) ==
    Max2(CLIP_LIMIT * tile_rows * tile_cols, CLAHE_BINS)

\* excess after the loop of lines 274-280
HistExcess256(hist, thr256) ==
    Mass([b \in 1..Len(hist) |->
            IF CLAHE_BINS * hist[b] > thr256 THEN CLAHE_BINS * hist[b] - thr256 ELSE 0])

\* hist after lines 274-292: bins clipped (*h = clip_threshold as u32),
\* add_per_bin added to each, then `remainder` times one more, from bin 0 on
\* and wrapping
ClipAndRedistribute(hist, tile_rows, tile_cols) ==
    Only({ Tabulated([b \in 1..Len(hist) |->
                        ClippedBin(hist[b], thr256)
                        + AddPerBin(excess) + Remainder(excess) \div CLAHE_BINS
                        + (IF b - 1 < Remainder(excess) % CLAHE_BINS THEN 1 ELSE 0)])
         : excess \in { HistExcess256(hist, TileClipThreshold256(tile_rows, tile_cols)) },
           thr256 \in { TileClipThreshold256(tile_rows, tile_cols) } })

NoTile == [tile_rows |-> 0, tile_cols |-> 0, hist |-> <<>>]
ClipNotCalled == [status |-> "none", hist |-> <<>>]

\* the histogram loop, clipping and redistribution of one tile
ClipTileHistogram ==
    /\ clipRes.status = "none"
    /\ \E h \in { ClipAndRedistribute(tileIn.hist, tileIn.tile_rows, tileIn.tile_cols) } :
          clipRes' = [status |-> "ok", hist |-> h]
    /\ UNCHANGED <<tileIn, opsVars, dbVars, scaleVars, rgbVars, geoVars, saveVars, batchVars, guiVars>>

NextClip == ClipTileHistogram

----------------------------------------------------------------------------
(* Saving: the geotransform written next to the image, save.rs             *)
(*                                                                         *)
(* A geotransform is the sequence of its six coefficients, gt[k + 1] for   *)
(* the code's gt[k], each an exact quotient <<num, den>> of the f64 value. *)

Whole(n) == <<n, 1>>
RatEq(x, y) == x[1] * y[2] = y[1] * x[2]
RatTimes(x, n, d) == <<x[1] * n, x[2] * d>>
RatMinus(x, y) == <<x[1] * y[2] - y[1] * x[2], x[2] * y[2]>>

NoMeta == [some |-> FALSE, gt |-> <<>>]
SomeMeta(gt) == [some |-> TRUE, gt |-> gt]

\* save.rs 71-82 (again at 141-151, 222-231, 370-380): r is what
\* resize_image_data_with_meta returned for a cols x rows grid
UpdatedGeotransform(gt, cols, rows, r) ==
    LET gt1 == IF r.scale_x[1] > 0 THEN RatTimes(gt[2], cols, r.cols) ELSE gt[2]
        gt5 == IF r.scale_y[1] > 0 THEN RatTimes(gt[6], rows, r.rows) ELSE gt[6]
        gt0 == RatMinus(gt[1], RatTimes(gt1, r.pad_left, 1))
        gt3 == RatMinus(gt[4], RatTimes(gt5, r.pad_top, 1))
    IN <<gt0, gt1, gt[3], gt3, gt[5], gt5>>

\* gt_override of a save whose resize gave r
GtOverride(r) ==
    IF meta.some THEN SomeMeta(UpdatedGeotransform(meta.gt, img.cols, img.rows, r))
    ELSE NoMeta

SaveCall(fn, format, target_size, bit_depth, pad, status, r, gt_override) ==
    [fn |-> fn, format |-> format, target_size |-> target_size, bit_depth |-> bit_depth,
     pad |-> pad, status |-> status, r |-> r, gt_override |-> gt_override]

SaveNotCalled == SaveCall("none", "none", NoTarget, "U8", FALSE, "none", GeoErr("", <<>>), NoMeta)

Formats == {"TIFF", "JPEG"}

\* img is what process_scalar_data_pipeline gave for the bit depth:
\* (bytes, None) at U8 and (vec![], Some(words)) at U16
PipelineGave(bit_depth) ==
    IF bit_depth = "U8"
    THEN Len(img.u8_data) = img.cols * img.rows /\ ~img.u16_data.some
    ELSE img.u8_data = <<>> /\ img.u16_data.some

\* save_processed_image (save.rs 23-172): TIFF at the bit depth asked for,
\* JPEG always at U8; an error of the resize ends the call (`?`)
SaveProcessedImage ==
    /\ saveRes.fn = "none"
    /\ \E format \in Formats, target_size \in Targets, bit_depth \in BitDepths, pad \in BOOLEAN :
          /\ format = "JPEG" => bit_depth = "U8"
          /\ PipelineGave(bit_depth)
          /\ \E r \in resize_image_data_with_meta(img.u8_data, img.u16_data, img.cols,
                                                  img.rows, target_size, bit_depth, pad) :
                saveRes' = SaveCall("save_processed_image", format, target_size, bit_depth, pad,
                                    r.status, r,
                                    IF r.status = "ok" THEN GtOverride(r) ELSE NoMeta)
    /\ UNCHANGED <<img, meta, opsVars, dbVars, scaleVars, rgbVars, geoRes, clipVars, batchVars, guiVars>>

\* save_processed_multiband_image_sequential (save.rs 174-401): the second
\* band (here a grid like the first) is resized in its turn, and its error
\* ends the call; the geotransform comes from the first band's record
SaveProcessedMultibandGeo ==
    /\ saveRes.fn = "none"
    /\ \E format \in Formats, target_size \in Targets, bit_depth \in BitDepths, pad \in BOOLEAN :
          /\ format = "JPEG" => bit_depth = "U8"
          /\ PipelineGave(bit_depth)
          /\ \E r \in resize_image_data_with_meta(img.u8_data, img.u16_data, img.cols,
                                                  img.rows, target_size, bit_depth, pad),
                r2 \in resize_image_data_with_meta(img.u8_data, img.u16_data, img.cols,
                                                   img.rows, target_size, bit_depth, pad) :
                saveRes' = SaveCall("save_processed_multiband_image_sequential", format,
                                    target_size, bit_depth, pad,
                                    IF r.status = "ok" THEN r2.status ELSE "err", r,
                                    IF r.status = "ok" /\ r2.status = "ok"
                                    THEN GtOverride(r) ELSE NoMeta)
    /\ UNCHANGED <<img, meta, opsVars, dbVars, scaleVars, rgbVars, geoRes, clipVars, batchVars, guiVars>>

NextSave ==
    \/ SaveProcessedImage
    \/ SaveProcessedMultibandGeo

----------------------------------------------------------------------------
(* Batch processing: process_directory_to_path, api/mod.rs 386-427         *)
(*                                                                         *)
(* A subdirectory is of one of four kinds:                                 *)
(*   "unreadable"   SafeReader::open_with_warnings returns Err (no         *)
(*                  annotation or measurement directory, bad metadata)     *)
(*   "unsupported"  open_with_warnings returns Ok(None)                    *)
(*   "failing"      it opens, process_safe_to_path returns Err             *)
(*   "good"         it opens, process_safe_to_path returns Ok              *)

ProductKinds == {"unreadable", "unsupported", "failing", "good"}

BatchReport(processed, skipped, errors) ==
    [processed |-> processed, skipped |-> skipped, errors |-> errors]

\* next is the 1-based position of the subdirectory the loop looks at next,
\* failed_at the position of the one whose error the call returned (0: none)
BatchState(status, continue_on_error, next, report, failed_at) ==
    [status |-> status, continue_on_error |-> continue_on_error, next |-> next,
     report |-> report, failed_at |-> failed_at]

BatchIdle == BatchState("idle", FALSE, 1, BatchReport(0, 0, 0), 0)

\* lines 392-396: the output directory is created and the input one listed
ProcessDirectoryToPath ==
    /\ batch.status = "idle"
    /\ \E continue_on_error \in BOOLEAN :
          batch' = [batch EXCEPT !.status = "running", !.continue_on_error = continue_on_error]
    /\ UNCHANGED <<products, opsVars, dbVars, scaleVars, rgbVars, geoVars, clipVars, saveVars, guiVars>>

\* lines 392, 396: create_dir_all or read_dir fails, `?` returns the error
DirectoryFails ==
    /\ batch.status = "idle"
    /\ \E continue_on_error \in BOOLEAN :
          batch' = [batch EXCEPT !.status = "err", !.continue_on_error = continue_on_error]
    /\ UNCHANGED <<products, opsVars, dbVars, scaleVars, rgbVars, geoVars, clipVars, saveVars, guiVars>>

Looking(kind) ==
    /\ batch.status = "running"
    /\ batch.next <= Len(products)
    /\ products[batch.next] = kind

\* line 399: open_with_warnings(..)? returns the error of the call
OpenFails ==
    /\ Looking("unreadable")
    /\ batch' = [batch EXCEPT !.status = "err", !.failed_at = batch.next]
    /\ UNCHANGED <<products, opsVars, dbVars, scaleVars, rgbVars, geoVars, clipVars, saveVars, guiVars>>

\* lines 419-422
ProductSkipped ==
    /\ Looking("unsupported")
    /\ batch' = [batch EXCEPT !.report.skipped = @ + 1, !.next = @ + 1]
    /\ UNCHANGED <<products, opsVars, dbVars, scaleVars, rgbVars, geoVars, clipVars, saveVars, guiVars>>

\* lines 409-410
ProductProcessed ==
    /\ Looking("good")
    /\ batch' = [batch EXCEPT !.report.processed = @ + 1, !.next = @ + 1]
    /\ UNCHANGED <<products, opsVars, dbVars, scaleVars, rgbVars, geoVars, clipVars, saveVars, guiVars>>

\* lines 411-416
ProductFails ==
    /\ Looking("failing")
    /\ batch' = IF batch.continue_on_error
                THEN [batch EXCEPT !.report.errors = @ + 1, !.next = @ + 1]
                ELSE [batch EXCEPT !.report.errors = @ + 1, !.status = "err",
                                   !.failed_at = batch.next]
    /\ UNCHANGED <<products, opsVars, dbVars, scaleVars, rgbVars, geoVars, clipVars, saveVars, guiVars>>

\* line 426: the iterator is exhausted, Ok(report)
BatchReturns ==
    /\ batch.status = "running"
    /\ batch.next > Len(products)
    /\ batch' = [batch EXCEPT !.status = "ok"]
    /\ UNCHANGED <<products, opsVars, dbVars, scaleVars, rgbVars, geoVars, clipVars, saveVars, guiVars>>

NextBatch ==
    \/ ProcessDirectoryToPath
    \/ DirectoryFails
    \/ OpenFails
    \/ ProductSkipped
    \/ ProductProcessed
    \/ ProductFails
    \/ BatchReturns

----------------------------------------------------------------------------
(* The GUI: gui/logging.rs, gui/processing.rs 445-541, gui/app.rs 44-283   *)
(*                                                                         *)
(* A log store is a list of LogEntry. It is kept as a sequence of runs     *)
(* <<kind, n>>, n >= 1 entries of one kind, oldest first:                  *)
(*   "old"        entries the store held at the start                      *)
(*   "event"      entries made by GuiLogLayer::on_event                    *)
(*   "separator"  the "--- Processing Started ---" entry of a worker       *)
(*   "cli"        the entry of the "To CLI" button                         *)

LOG_CAP == 1000

RECURSIVE StoreLen(_)
StoreLen(s) == IF s = <<>> THEN 0 ELSE s[1][2] + StoreLen(Tail(s))

\* Vec::push, k times with entries of one kind
Push(s, kind, k) ==
    IF k = 0 THEN s
    ELSE IF s # <<>> /\ s[Len(s)][1] = kind
         THEN [s EXCEPT ![Len(s)] = <<kind, s[Len(s)][2] + k>>]
         ELSE Append(s, <<kind, k>>)

\* Vec::remove(0) k times, Vec::drain(0..k): the k entries at the front go
RECURSIVE DropOldest(_, _)
DropOldest(s, k) ==
    IF k = 0 \/ s = <<>> THEN s
    ELSE IF s[1][2] > k THEN [s EXCEPT ![1] = <<s[1][1], s[1][2] - k>>]
         ELSE DropOldest(Tail(s), k - s[1][2])

\* Vec::extend
RECURSIVE Extend(_, _)
Extend(s, t) == IF t = <<>> THEN s ELSE Extend(Push(s, t[1][1], t[1][2]), Tail(t))

\* logging.rs 83-88, under the lock of LOG_BUFFER
on_event(buf) ==
    IF StoreLen(Push(buf, "event", 1)) > LOG_CAP
    THEN DropOldest(Push(buf, "event", 1), 1)
    ELSE Push(buf, "event", 1)

\* k tracing events in a row, each through on_event
RECURSIVE LogEvents(_, _)
LogEvents(buf, k) == IF k = 0 THEN buf ELSE LogEvents(on_event(buf), k - 1)

\* models.rs 84-122: SarproGui::default(); logs names the list behind the
\* Arc log_messages, a fresh one for every default()
GuiDefault(logs) ==
    [is_processing |-> FALSE, processing_start_time |-> FALSE,
     completion_receiver |-> 0, logs |-> logs]

\* a spawned thread: where it is, the list its log_messages points to and
\* the message in its channel
Worker(pc, logs, msg) == [pc |-> pc, logs |-> logs, msg |-> msg]

Alive(w) == w.pc \in {"spawned", "validated"}

\* the state a frame works on
GuiState(g, logs, buf, ws) == [gui |-> g, log_messages |-> logs, LOG_BUFFER |-> buf, workers |-> ws]

\* processing.rs 445-541. Busy: one debug! and return. Otherwise a trace!,
\* an info!, eight debug! and a closing info!, a thread and its channel.
process_files(s) ==
    IF s.gui.is_processing
    THEN [s EXCEPT !.LOG_BUFFER = LogEvents(@, 1)]
    ELSE [s EXCEPT !.gui.is_processing = TRUE,
                   !.gui.processing_start_time = TRUE,
                   !.gui.completion_receiver = Len(s.workers) + 1,
                   !.workers = Append(@, Worker("spawned", s.gui.logs, "none")),
                   !.LOG_BUFFER = LogEvents(@, 11)]

\* app.rs 110-121: the Process button is enabled while not processing
HeaderClick(s, click) ==
    IF click = "process" /\ ~s.gui.is_processing THEN process_files(s) ELSE s

\* components.rs 564-622: To CLI, Clear and Reset, enabled at all times
FooterClick(s, click) ==
    CASE click = "to_cli" -> [s EXCEPT !.log_messages = Push(@, "cli", 1)]
      [] click = "clear"  -> [s EXCEPT !.log_messages = <<>>]
      [] click = "reset"  -> [s EXCEPT !.gui = GuiDefault(s.gui.logs + 1), !.log_messages = <<>>]
      [] OTHER            -> s

KeepLast(s, cap) == IF StoreLen(s) > cap THEN DropOldest(s, StoreLen(s) - cap) ELSE s

\* app.rs 175-192: LOG_BUFFER is drained into log_messages, which is cut
\* to its last 1000 entries if anything arrived
DrainLogs(s) ==
    IF s.LOG_BUFFER = <<>> THEN s
    ELSE [s EXCEPT !.log_messages = KeepLast(Extend(@, s.LOG_BUFFER), LOG_CAP),
                   !.LOG_BUFFER = <<>>]

\* try_recv of the stored receiver gives Ok only for a queued message
TryRecvOk(s) ==
    /\ s.gui.completion_receiver # 0
    /\ s.workers[s.gui.completion_receiver].msg = "queued"

\* app.rs 199-221: two info! and a debug! on completion
CheckCompletion(s) ==
    IF TryRecvOk(s)
    THEN [s EXCEPT !.workers[s.gui.completion_receiver].msg = "taken",
                   !.LOG_BUFFER = LogEvents(@, IF s.gui.processing_start_time THEN 3 ELSE 1),
                   !.gui.is_processing = FALSE,
                   !.gui.processing_start_time = FALSE,
                   !.gui.completion_receiver = 0]
    ELSE s

\* one frame: header, footer, central panel
update(s, click) == CheckCompletion(DrainLogs(FooterClick(HeaderClick(s, click), click)))

Now == GuiState(gui, log_messages, LOG_BUFFER, workers)

MaxRuns == 2
MaxLogged == 1
MaxCli == 1
MaxResets == 1

Becomes(s) ==
    /\ gui' = s.gui
    /\ log_messages' = s.log_messages
    /\ LOG_BUFFER' = s.LOG_BUFFER
    /\ workers' = s.workers

CliEntries(s) == Cardinality({ i \in 1..Len(s) : s[i][1] = "cli" })

\* a frame without a click
Update ==
    /\ Becomes(update(Now, "none"))
    /\ UNCHANGED <<logged, opsVars, dbVars, scaleVars, rgbVars, geoVars, clipVars, saveVars, batchVars>>

\* a frame in which the Process button is clicked
UpdateProcessClicked ==
    /\ ~gui.is_processing
    /\ Len(workers) < MaxRuns
    /\ Becomes(update(Now, "process"))
    /\ UNCHANGED <<logged, opsVars, dbVars, scaleVars, rgbVars, geoVars, clipVars, saveVars, batchVars>>

UpdateToCliClicked ==
    /\ CliEntries(log_messages) < MaxCli
    /\ Becomes(update(Now, "to_cli"))
    /\ UNCHANGED <<logged, opsVars, dbVars, scaleVars, rgbVars, geoVars, clipVars, saveVars, batchVars>>

UpdateClearClicked ==
    /\ Becomes(update(Now, "clear"))
    /\ UNCHANGED <<logged, opsVars, dbVars, scaleVars, rgbVars, geoVars, clipVars, saveVars, batchVars>>

UpdateResetClicked ==
    /\ gui.logs < MaxResets
    /\ Becomes(update(Now, "reset"))
    /\ UNCHANGED <<logged, opsVars, dbVars, scaleVars, rgbVars, geoVars, clipVars, saveVars, batchVars>>

\* process_files called while processing is in progress
ProcessFilesWhileBusy ==
    /\ gui.is_processing
    /\ logged < MaxLogged
    /\ Becomes(process_files(Now))
    /\ logged' = logged + 1
    /\ UNCHANGED <<opsVars, dbVars, scaleVars, rgbVars, geoVars, clipVars, saveVars, batchVars>>

\* a tracing event of any thread outside process_files and update
OnEvent ==
    /\ logged < MaxLogged
    /\ LOG_BUFFER' = on_event(LOG_BUFFER)
    /\ logged' = logged + 1
    /\ UNCHANGED <<gui, log_messages, workers, opsVars, dbVars, scaleVars, rgbVars, geoVars, clipVars, saveVars, batchVars>>

\* processing.rs 561-569, 660-668: the paths are there, the worker pushes
\* the separator onto the list its log_messages points to
WorkerPushesSeparator ==
    \E i \in 1..Len(workers) :
       /\ workers[i].pc = "spawned"
       /\ workers' = [workers EXCEPT ![i].pc = "validated"]
       /\ log_messages' = IF workers[i].logs = gui.logs
                          THEN Push(log_messages, "separator", 1)
                          ELSE log_messages
       /\ UNCHANGED <<gui, LOG_BUFFER, logged, opsVars, dbVars, scaleVars, rgbVars, geoVars, clipVars, saveVars, batchVars>>

\* processing.rs 527-536: process_files_inner returned, Ok or Err; an
\* error! for Err; the message is sent and the thread ends
WorkerSends ==
    \E i \in 1..Len(workers) : \E failed \in BOOLEAN :
       /\ Alive(workers[i])
       /\ workers[i].pc = "spawned" => failed
       /\ workers' = [workers EXCEPT ![i].pc = "sent", ![i].msg = "queued"]
       /\ LOG_BUFFER' = LogEvents(LOG_BUFFER, IF failed THEN 2 ELSE 1)
       /\ UNCHANGED <<gui, log_messages, logged, opsVars, dbVars, scaleVars, rgbVars, geoVars, clipVars, saveVars, batchVars>>

\* a panic inside process_single_file unwinds the thread: tx is dropped
\* and nothing was sent
WorkerPanics ==
    \E i \in 1..Len(workers) :
       /\ workers[i].pc = "validated"
       /\ workers' = [workers EXCEPT ![i].pc = "panicked"]
       /\ UNCHANGED <<gui, log_messages, LOG_BUFFER, logged, opsVars, dbVars, scaleVars, rgbVars, geoVars, clipVars, saveVars, batchVars>>

WorkerStep == WorkerPushesSeparator \/ WorkerSends \/ WorkerPanics

NextGui ==
    \/ Update
    \/ UpdateProcessClicked
    \/ UpdateToCliClicked
    \/ UpdateClearClicked
    \/ UpdateResetClicked
    \/ ProcessFilesWhileBusy
    \/ OnEvent
    \/ WorkerPushesSeparator
    \/ WorkerSends
    \/ WorkerPanics

----------------------------------------------------------------------------
(* Specifications                                                          *)

\* A specification leaves the other components' variables at their idle values.

InitOps ==
    /\ opA \in OpGrids
    /\ opB \in OpGrids
    /\ opRes = NotCalled
    /\ raw = NoRaw /\ dbRes = DbNotCalled
    /\ db = NoGrid /\ valid = <<>> /\ scRes = ScNotCalled
    /\ band1 = <<>> /\ band2 = <<>> /\ rgbRes = RgbNotCalled
    /\ img = NoImage /\ geoRes = GeoNotCalled
    /\ gui = GuiDefault(0) /\ log_messages = <<>> /\ LOG_BUFFER = <<>> /\ workers = <<>> /\ logged = 0
    /\ products = <<>> /\ batch = BatchIdle
    /\ meta = NoMeta /\ saveRes = SaveNotCalled
    /\ tileIn = NoTile /\ clipRes = ClipNotCalled

InitDb ==
    /\ \E s \in RawShapes : raw \in RawGrids(s)
    /\ dbRes = DbNotCalled
    /\ opA = NoGrid /\ opB = NoGrid /\ opRes = NotCalled
    /\ db = NoGrid /\ valid = <<>> /\ scRes = ScNotCalled
    /\ band1 = <<>> /\ band2 = <<>> /\ rgbRes = RgbNotCalled
    /\ img = NoImage /\ geoRes = GeoNotCalled
    /\ gui = GuiDefault(0) /\ log_messages = <<>> /\ LOG_BUFFER = <<>> /\ workers = <<>> /\ logged = 0
    /\ products = <<>> /\ batch = BatchIdle
    /\ meta = NoMeta /\ saveRes = SaveNotCalled
    /\ tileIn = NoTile /\ clipRes = ClipNotCalled

\* the mask is the one radiometric conversion computes: db > -50
InitScale ==
    /\ \E s \in ScShapes : db \in DbGrids(s)
    /\ valid = [k \in 1..Len(db.data) |-> db.data[k] > -50]
    /\ scRes = ScNotCalled
    /\ opA = NoGrid /\ opB = NoGrid /\ opRes = NotCalled
    /\ raw = NoRaw /\ dbRes = DbNotCalled
    /\ band1 = <<>> /\ band2 = <<>> /\ rgbRes = RgbNotCalled
    /\ img = NoImage /\ geoRes = GeoNotCalled
    /\ gui = GuiDefault(0) /\ log_messages = <<>> /\ LOG_BUFFER = <<>> /\ workers = <<>> /\ logged = 0
    /\ products = <<>> /\ batch = BatchIdle
    /\ meta = NoMeta /\ saveRes = SaveNotCalled
    /\ tileIn = NoTile /\ clipRes = ClipNotCalled

\* constant grids, every sample valid: a single pixel, a 2x2 grid, the 8x8
\* grid (one pixel per CLAHE tile) and a 21x7 grid (three pixels per tile)
FlatShapes == {<<1, 1>>, <<2, 2>>, <<8, 8>>, <<21, 7>>}
FlatVals == {-35, 0}

InitFlat ==
    /\ \E s \in FlatShapes, v \in FlatVals :
          /\ db = [rows |-> s[1], cols |-> s[2], data |-> [k \in 1..(s[1] * s[2]) |-> v]]
          /\ valid = [k \in 1..(s[1] * s[2]) |-> TRUE]
    /\ scRes = ScNotCalled
    /\ opA = NoGrid /\ opB = NoGrid /\ opRes = NotCalled
    /\ raw = NoRaw /\ dbRes = DbNotCalled
    /\ band1 = <<>> /\ band2 = <<>> /\ rgbRes = RgbNotCalled
    /\ img = NoImage /\ geoRes = GeoNotCalled
    /\ gui = GuiDefault(0) /\ log_messages = <<>> /\ LOG_BUFFER = <<>> /\ workers = <<>> /\ logged = 0
    /\ products = <<>> /\ batch = BatchIdle
    /\ meta = NoMeta /\ saveRes = SaveNotCalled
    /\ tileIn = NoTile /\ clipRes = ClipNotCalled

\* bytes: zero, one within the cushion of 3, one just above the cap of 40
\* and a bright one
Bytes == {0, 2, 41, 200}
MaxHead == 1
FillLens == {0, 4, 14}

\* bands of equal length: up to MaxHead free pixels, then a run of one pixel
InitRgb ==
    /\ \E h \in 0..MaxHead, n \in FillLens :
          \E head1 \in SeqsOf(Bytes, h), head2 \in SeqsOf(Bytes, h), f1 \in Bytes, f2 \in Bytes :
             /\ band1 = head1 \o Repeat(f1, n)
             /\ band2 = head2 \o Repeat(f2, n)
    /\ rgbRes = RgbNotCalled
    /\ img = NoImage /\ geoRes = GeoNotCalled
    /\ gui = GuiDefault(0) /\ log_messages = <<>> /\ LOG_BUFFER = <<>> /\ workers = <<>> /\ logged = 0
    /\ products = <<>> /\ batch = BatchIdle
    /\ meta = NoMeta /\ saveRes = SaveNotCalled
    /\ tileIn = NoTile /\ clipRes = ClipNotCalled
    /\ opA = NoGrid /\ opB = NoGrid /\ opRes = NotCalled
    /\ raw = NoRaw /\ dbRes = DbNotCalled
    /\ db = NoGrid /\ valid = <<>> /\ scRes = ScNotCalled

InitCompose ==
    /\ \E n \in 0..MaxHead : band1 \in SeqsOf(Bytes, n) /\ band2 \in SeqsOf(Bytes, n)
    /\ rgbRes = RgbNotCalled
    /\ img = NoImage /\ geoRes = GeoNotCalled
    /\ gui = GuiDefault(0) /\ log_messages = <<>> /\ LOG_BUFFER = <<>> /\ workers = <<>> /\ logged = 0
    /\ products = <<>> /\ batch = BatchIdle
    /\ meta = NoMeta /\ saveRes = SaveNotCalled
    /\ tileIn = NoTile /\ clipRes = ClipNotCalled
    /\ opA = NoGrid /\ opB = NoGrid /\ opRes = NotCalled
    /\ raw = NoRaw /\ dbRes = DbNotCalled
    /\ db = NoGrid /\ valid = <<>> /\ scRes = ScNotCalled

\* grids of 1..MaxSide columns and rows; the samples are non-zero and differ
\* from pixel to pixel, so that a moved pixel and a border pixel show.  The
\* 16-bit buffers have non-zero low bytes (257 * k) or zero ones (256 * k).
Buffers8(n) == {[k \in 1..n |-> k], [k \in 1..n |-> 100 + k]}
Buffers16(n) == {[k \in 1..n |-> 257 * k], [k \in 1..n |-> 256 * k]}

\* the pairs the callers hand over: (bytes, None), (vec![], Some(words)),
\* and both buffers at once
InitGeo ==
    /\ \E cols \in 1..MaxSide, rows \in 1..MaxSide :
          \E u8_data \in Buffers8(cols * rows) \cup {<<>>},
             u16_data \in {NoBuffer} \cup {SomeBuffer(w) : w \in Buffers16(cols * rows)} :
             /\ u8_data = <<>> => u16_data.some
             /\ img = [cols |-> cols, rows |-> rows, u8_data |-> u8_data, u16_data |-> u16_data]
    /\ geoRes = GeoNotCalled
    /\ gui = GuiDefault(0) /\ log_messages = <<>> /\ LOG_BUFFER = <<>> /\ workers = <<>> /\ logged = 0
    /\ products = <<>> /\ batch = BatchIdle
    /\ meta = NoMeta /\ saveRes = SaveNotCalled
    /\ tileIn = NoTile /\ clipRes = ClipNotCalled
    /\ opA = NoGrid /\ opB = NoGrid /\ opRes = NotCalled
    /\ raw = NoRaw /\ dbRes = DbNotCalled
    /\ db = NoGrid /\ valid = <<>> /\ scRes = ScNotCalled
    /\ band1 = <<>> /\ band2 = <<>> /\ rgbRes = RgbNotCalled

\* tiles of 1 to 256 pixels: below, at and above the 128 pixels from which
\* the threshold exceeds 1, with a whole threshold (128, 256 pixels) and
\* with a fractional one (144 pixels: 1.125, 200 pixels: 1.5625)
TileShapes == {<<1, 1>>, <<1, 3>>, <<8, 16>>, <<12, 12>>, <<10, 20>>, <<16, 16>>}
HistCounts == {0, 1, 2, 5, 100}

\* valid pixels in the bins 0, 1 and 255, no more of them than the tile holds
InitClip ==
    /\ \E s \in TileShapes, n0 \in HistCounts, n1 \in HistCounts, n255 \in HistCounts :
          /\ n0 + n1 + n255 <= s[1] * s[2]
          /\ tileIn = [tile_rows |-> s[1], tile_cols |-> s[2],
                     hist |-> Tabulated([b \in 1..CLAHE_BINS |->
                                 IF b = 1 THEN n0 ELSE IF b = 2 THEN n1
                                 ELSE IF b = CLAHE_BINS THEN n255 ELSE 0])]
    /\ clipRes = ClipNotCalled
    /\ opA = NoGrid /\ opB = NoGrid /\ opRes = NotCalled
    /\ raw = NoRaw /\ dbRes = DbNotCalled
    /\ db = NoGrid /\ valid = <<>> /\ scRes = ScNotCalled
    /\ band1 = <<>> /\ band2 = <<>> /\ rgbRes = RgbNotCalled
    /\ img = NoImage /\ geoRes = GeoNotCalled
    /\ gui = GuiDefault(0) /\ log_messages = <<>> /\ LOG_BUFFER = <<>> /\ workers = <<>> /\ logged = 0
    /\ products = <<>> /\ batch = BatchIdle
    /\ meta = NoMeta /\ saveRes = SaveNotCalled

\* a north-up geotransform: origin (500, 900), pixels of 10 by -10
SourceGt == <<Whole(500), Whole(10), Whole(0), Whole(900), Whole(0), Whole(-10)>>

\* a quantized grid as the pipeline returns it, with or without a geotransform
InitSave ==
    /\ \E cols \in 1..MaxSide, rows \in 1..MaxSide :
          \/ \E b \in Buffers8(cols * rows) :
                img = [cols |-> cols, rows |-> rows, u8_data |-> b, u16_data |-> NoBuffer]
          \/ \E w \in Buffers16(cols * rows) :
                img = [cols |-> cols, rows |-> rows, u8_data |-> <<>>, u16_data |-> SomeBuffer(w)]
    /\ meta \in {NoMeta, SomeMeta(SourceGt)}
    /\ saveRes = SaveNotCalled
    /\ geoRes = GeoNotCalled
    /\ gui = GuiDefault(0) /\ log_messages = <<>> /\ LOG_BUFFER = <<>> /\ workers = <<>> /\ logged = 0
    /\ products = <<>> /\ batch = BatchIdle
    /\ opA = NoGrid /\ opB = NoGrid /\ opRes = NotCalled
    /\ raw = NoRaw /\ dbRes = DbNotCalled
    /\ db = NoGrid /\ valid = <<>> /\ scRes = ScNotCalled
    /\ band1 = <<>> /\ band2 = <<>> /\ rgbRes = RgbNotCalled
    /\ tileIn = NoTile /\ clipRes = ClipNotCalled

MaxProducts == 3

\* an input directory of up to MaxProducts subdirectories of any kind
InitBatch ==
    /\ \E n \in 0..MaxProducts : products \in SeqsOf(ProductKinds, n)
    /\ batch = BatchIdle
    /\ opA = NoGrid /\ opB = NoGrid /\ opRes = NotCalled
    /\ raw = NoRaw /\ dbRes = DbNotCalled
    /\ db = NoGrid /\ valid = <<>> /\ scRes = ScNotCalled
    /\ band1 = <<>> /\ band2 = <<>> /\ rgbRes = RgbNotCalled
    /\ img = NoImage /\ geoRes = GeoNotCalled
    /\ gui = GuiDefault(0) /\ log_messages = <<>> /\ LOG_BUFFER = <<>> /\ workers = <<>> /\ logged = 0
    /\ tileIn = NoTile /\ clipRes = ClipNotCalled
    /\ meta = NoMeta /\ saveRes = SaveNotCalled

\* fill levels of the two log stores when the window has been open a while
StoreLevels == {<<>>, <<<<"old", 999>>>>, <<<<"old", 1000>>>>}

InitGui ==
    /\ gui = GuiDefault(0)
    /\ log_messages \in StoreLevels
    /\ LOG_BUFFER \in StoreLevels
    /\ workers = <<>>
    /\ logged = 0
    /\ opA = NoGrid /\ opB = NoGrid /\ opRes = NotCalled
    /\ raw = NoRaw /\ dbRes = DbNotCalled
    /\ db = NoGrid /\ valid = <<>> /\ scRes = ScNotCalled
    /\ band1 = <<>> /\ band2 = <<>> /\ rgbRes = RgbNotCalled
    /\ img = NoImage /\ geoRes = GeoNotCalled
    /\ tileIn = NoTile /\ clipRes = ClipNotCalled
    /\ meta = NoMeta /\ saveRes = SaveNotCalled
    /\ products = <<>> /\ batch = BatchIdle

\* the window has just been opened: both log stores are empty
InitGuiLive == InitGui /\ log_messages = <<>> /\ LOG_BUFFER = <<>>

SpecOps == InitOps /\ [][NextOps]_vars
SpecRgb == InitRgb /\ [][NextRgb]_vars
SpecCompose == InitCompose /\ [][NextCompose]_vars
SpecScale == InitScale /\ [][NextScale]_vars
SpecFlat == InitFlat /\ [][NextScale]_vars
SpecDb == InitDb /\ [][NextDb]_vars
SpecGeo == InitGeo /\ [][NextGeo]_vars
SpecClip == InitClip /\ [][NextClip]_vars
SpecSave == InitSave /\ [][NextSave]_vars
SpecBatch == InitBatch /\ [][NextBatch]_vars
SpecGui == InitGui /\ [][NextGui]_vars

\* a frame is drawn again and again while processing (app.rs 195-197,
\* request_repaint) and the spawned thread is scheduled
SpecGuiLive == InitGuiLive /\ [][NextGui]_vars /\ WF_vars(Update) /\ WF_vars(WorkerStep)

----------------------------------------------------------------------------
(* Claims on the polarization algebra (checked under SpecOps)              *)

OpN == opA.rows * opA.cols

\* res * y = x on complex numbers, res = (re + i im) / den
IsQuotient(res, x, y) ==
    /\ res.cls = "fin"
    /\ res.re * y[1] - res.im * y[2] = x[1] * res.den
    /\ res.re * y[2] + res.im * y[1] = x[2] * res.den

IsExactZero(res) == res.cls = "fin" /\ res.re = 0 /\ res.im = 0

\* C1: ratio_arrays on two same-shaped grids returns a grid of that shape
\* whose every element is a/b when |b| > 1e-10 and exactly 0 otherwise; with
\* b zero everywhere the result is the all-zero grid, no NaN, no infinity.
C1_RatioZeroRule ==
    (opRes.op = "ratio" /\ SameDim(opA, opB)) =>
        /\ opRes.status = "ok"
        /\ SameDim(opRes.grid, opA)
        /\ Len(opRes.grid.data) = OpN
        /\ \A k \in 1..OpN :
              LET y == opB.data[k]
              IN  IF y[1] * y[1] + y[2] * y[2] > 1
                  THEN IsQuotient(opRes.grid.data[k], opA.data[k], y)
                  ELSE IsExactZero(opRes.grid.data[k])
        /\ (\A k \in 1..OpN : opB.data[k] = <<0, 0>>) =>
              \A k \in 1..OpN : IsExactZero(opRes.grid.data[k])

\* a ratio was taken of a grid holding both a sample divided by a b above
\* the threshold (non-zero quotient) and a non-zero sample over b = 0
C1_Witness ==
    /\ opRes.op = "ratio" /\ opRes.status = "ok"
    /\ \E k \in 1..OpN : /\ opB.data[k] = <<-1, 1>>
                         /\ ~IsExactZero(opRes.grid.data[k])
    /\ \E k \in 1..OpN : opB.data[k] = <<0, 0>> /\ opA.data[k] # <<0, 0>>

IsFiniteSample(res) == res.cls \in {"fin", "log"}

\* C2: on same-shaped finite grids every element produced by ratio_arrays,
\* normalized_diff_arrays and log_ratio_arrays is a finite number.
C2_AllResultsFinite ==
    (opRes.op \in {"ratio", "normalized_diff", "log_ratio"} /\ SameDim(opA, opB)) =>
        /\ opRes.status = "ok"
        /\ \A k \in 1..OpN : IsFiniteSample(opRes.grid.data[k])

\* C3: every polarization operation invoked on grids of different shapes
\* fails with a ShapeMismatch error returned to the caller: no result grid,
\* no abort.
C3_ShapeMismatchReturned ==
    (opRes.status # "none" /\ ~SameDim(opA, opB)) => opRes.status = "ShapeMismatch"

----------------------------------------------------------------------------
(* Claims on radiometric conversion (checked under SpecDb)                 *)

RawN == raw.rows * raw.cols

\* C4: process_scalar_data_inplace never fails and returns a dB grid and a
\* mask of the input's shape; the intensity is clamped to at least 1e-10
\* and the mask entry is true exactly when dB > -50, i.e. intensity > 1e-5.
C4_MaskRule ==
    (dbRes.status # "none") =>
        /\ dbRes.status = "ok"
        /\ dbRes.db.rows = raw.rows /\ dbRes.db.cols = raw.cols
        /\ Len(dbRes.db.data) = RawN /\ Len(dbRes.mask) = RawN
        /\ \A k \in 1..RawN :
              /\ dbRes.db.data[k] >= -100000
              /\ ~SciGt(raw.data[k], <<1, -10>>) => dbRes.db.data[k] = -100000
              /\ dbRes.mask[k] = (dbRes.db.data[k] > -50000)
              /\ dbRes.mask[k] = SciGt(raw.data[k], <<1, -5>>)
        /\ (\A k \in 1..RawN : ~SciGt(raw.data[k], <<1, -5>>)) =>
              \A k \in 1..RawN : dbRes.mask[k] = FALSE

\* converted: a grid with a sample exactly at 1e-5 (invalid), one just above
\* (valid) and a non-positive one (clamped)
C4_Witness ==
    /\ dbRes.status = "ok"
    /\ \E k \in 1..RawN : raw.data[k] = <<1, -5>> /\ ~dbRes.mask[k]
    /\ \E k \in 1..RawN : raw.data[k] = <<2, -5>> /\ dbRes.mask[k]
    /\ \E k \in 1..RawN : raw.data[k][1] <= 0 /\ ~dbRes.mask[k]

----------------------------------------------------------------------------
(* Claims about the autoscale engine (SpecScale)                           *)

ScN == Len(db.data)
ScCalled == scRes.status # "none"
ScStats == compute_histogram_stats(db, valid)
NoValid == \A k \in 1..Len(valid) : ~valid[k]

\* the buffer a call returned: the Vec<u16>, or the Vec<u8> of the calls
\* that return bytes
ScOut == IF scRes.some16 THEN scRes.u16 ELSE scRes.u8

PlainFns == {"autoscale_db_image", "autoscale_db_image_to_bitdepth"}
AdvancedFns == {"autoscale_db_image_advanced", "autoscale_db_image_to_bitdepth_advanced"}

\* the call ran the SAR-specific engine of autoscale_db_image
UsesPlainEngine ==
    \/ scRes.fn \in PlainFns
    \/ scRes.fn = "process_scalar_data_pipeline" /\ scRes.strategy = "Standard"

\* the call ran autoscale_db_image_advanced
UsesAdvancedEngine ==
    \/ scRes.fn \in AdvancedFns
    \/ scRes.fn = "process_scalar_data_pipeline" /\ scRes.strategy # "Standard"

\* C5: with no true entry in the validity mask the snapshot is all zero and
\* every autoscale entry point, for every strategy (CLAHE included) and in
\* either build, returns without panic a buffer of rows*cols zeros.
C5_EmptyMaskAllZero ==
    (ScCalled /\ NoValid) =>
        /\ \A f \in DOMAIN ScStats : ScStats[f] = 0
        /\ scRes.status = "ok"
        /\ ScOut = [k \in 1..(db.rows * db.cols) |-> 0]

C5_Witness ==
    /\ ScCalled /\ NoValid /\ ScN >= 2
    /\ scRes.fn = "autoscale_db_image_advanced" /\ scRes.strategy = "Clahe"
    /\ scRes.status = "ok" /\ scRes.u16 = <<0, 0>>

PercentileChain(st) ==
    <<st.min_db, st.p01, st.p02, st.p05, st.p10, st.p25, st.median_db,
      st.p75, st.p90, st.p95, st.p98, st.p99, st.max_db>>

\* C6: for every grid with at least one valid sample the snapshot satisfies
\* min <= p01 <= p02 <= p05 <= p10 <= p25 <= median <= p75 <= p90 <= p95 <=
\* p98 <= p99 <= max, in the max = min branch and in the histogram branch.
C6_PercentilesOrdered ==
    \A st \in { ScStats } :
        st.valid_count >= 1 =>
            \A i \in 1..12 : PercentileChain(st)[i] <= PercentileChain(st)[i + 1]

C6_Witness ==
    /\ ScCalled
    /\ \E st \in { ScStats } :
          /\ st.valid_count = MaxPixels
          /\ st.min_db < st.p25
          /\ st.p25 < st.median_db
          /\ st.median_db < st.p75
          /\ st.p99 < st.max_db

\* the cascade as it is worded: the first matching rule of
\*   range < 15  -> median -/+ max(20, 0.8 range) / 2, gamma 1.1
\*   IQR < 5     -> [p25 - 2.5 IQR, p75 + 2.5 IQR],   gamma 1.0
\*   range > 40  -> [max(p02, min + 0.02 range), min(p98, max - 0.02 range)], gamma 0.9
\*   otherwise   -> [p02, p98],                       gamma 1.0
WordedCascade(st) ==
    LET range == st.max_db - st.min_db
        iqr   == st.p75 - st.p25
        width == IF 20 * SCALE >= (range \div 5) * 4 THEN 20 * SCALE ELSE (range \div 5) * 4
        lo40  == IF st.p02 >= st.min_db + range \div 50 THEN st.p02 ELSE st.min_db + range \div 50
        hi40  == IF st.p98 <= st.max_db - range \div 50 THEN st.p98 ELSE st.max_db - range \div 50
    IN  CASE range < 15 * SCALE ->
               <<st.median_db - width \div 2, st.median_db + width \div 2, 11>>
          [] range >= 15 * SCALE /\ iqr < 5 * SCALE ->
               <<st.p25 - 5 * (iqr \div 2), st.p75 + 5 * (iqr \div 2), 10>>
          [] range >= 15 * SCALE /\ iqr >= 5 * SCALE /\ range > 40 * SCALE ->
               <<lo40, hi40, 9>>
          [] OTHER -> <<st.p02, st.p98, 10>>

\* what a scaling loop returns for the bounds <<low, high, gamma>> of w once
\* they are clamped to the data range and the divisor floored at 1
QuantizedWith(w, st, bit_depth) ==
    LET low  == IF w[1] >= st.min_db THEN w[1] ELSE st.min_db
        high == IF w[2] <= st.max_db THEN w[2] ELSE st.max_db
    IN  ScaleLoop(db, valid, low, high,
                  IF high - low >= SCALE THEN high - low ELSE SCALE, w[3], MaxVal(bit_depth))

\* C7: for strategy Standard the engine quantizes with the bounds and gamma
\* of the first-match cascade, in every autoscale function that accepts the
\* strategy: autoscale_db_image and autoscale_db_image_advanced alike.
C7_StandardEverywhere ==
    (/\ ScCalled
     /\ scRes.strategy = "Standard"
     /\ scRes.fn \in {"autoscale_db_image", "autoscale_db_image_advanced"}) =>
        \A st \in { ScStats } :
            st.valid_count >= 1 =>
                scRes.u16 = QuantizedWith(WordedCascade(st), st, scRes.bit_depth)

\* What does hold of Standard: autoscale_db_image, its wrapper and the
\* pipeline quantize with the first-match cascade, while
\* autoscale_db_image_advanced and its wrapper, given Standard, quantize with
\* [p05, p95] and gamma 1.0.
StandardByEngine ==
    (ScCalled /\ scRes.strategy = "Standard") =>
        \A st \in { ScStats } :
            st.valid_count >= 1 =>
                /\ UsesPlainEngine =>
                      LET q == QuantizedWith(WordedCascade(st), st, scRes.bit_depth)
                      IN  IF scRes.some16 THEN scRes.u16 = q ELSE scRes.u8 = scale_u16_to_u8(q)
                /\ UsesAdvancedEngine =>
                      LET q == QuantizedWith(<<st.p05, st.p95, 10>>, st, scRes.bit_depth)
                      IN  IF scRes.some16 THEN scRes.u16 = q ELSE scRes.u8 = scale_u16_to_u8(q)

StandardByEngine_Reached ==
    /\ ScCalled /\ scRes.fn = "autoscale_db_image" /\ scRes.bit_depth = "U8"
    /\ \E st \in { ScStats } :
          /\ st.valid_count >= 1
          /\ st.max_db - st.min_db > 40 * SCALE /\ st.p75 - st.p25 >= 5 * SCALE
          /\ scRes.u16 # QuantizedWith(<<st.p02, st.p98, 10>>, st, "U8")
          /\ scRes.u16 # QuantizedWith(<<st.p05, st.p95, 10>>, st, "U8")

\* the bounds, gamma and divisor the call of scRes quantized with, given the
\* snapshot st of its input
ClipUsed(st) ==
    IF scRes.fn = "autoscale_db_image_tamed_synrgb_u8"
    THEN TamedSynRgbClip(st, scRes.strategy = "copol")
    ELSE IF UsesPlainEngine
    THEN [low |-> StandardClip(st).low, high |-> StandardClip(st).high,
          gamma10 |-> StandardClip(st).gamma10, range |-> StandardClip(st).range]
    ELSE AdvancedClip(st, scRes.strategy)

C9_QuantizedBand ==
    ScCalled =>
        /\ scRes.status = "ok"
        /\ Len(ScOut) = db.rows * db.cols
        /\ \A k \in 1..Len(ScOut) :
              /\ ScOut[k] \in 0..MaxVal(scRes.bit_depth)
              /\ ~valid[k] => ScOut[k] = 0

\* normalized * max_value rounded to the nearest integer, clamped
RoundLevel(x, max_val) ==
    IF x[1] <= 0 THEN 0
    ELSE IF x[1] >= x[2] THEN max_val
    ELSE LET q == MulDiv(x[1], max_val, x[2])
         IN  q[1] + (IF 2 * q[2] >= x[2] THEN 1 ELSE 0)

\* C10: on the non-CLAHE path, with gamma 1.0, the output of every valid
\* pixel is normalized * max_value rounded to the nearest integer and
\* clamped to [0, max_value].
C10_RoundToNearest ==
    (/\ ScCalled
     /\ scRes.fn \in {"autoscale_db_image", "autoscale_db_image_advanced",
                      "autoscale_db_image_tamed_synrgb_u8"}
     /\ scRes.strategy # "Clahe") =>
        \A st \in { ScStats } :
            st.valid_count >= 1 =>
                \A c \in { ClipUsed(st) } :
                    c.gamma10 = 10 =>
                        \A k \in 1..ScN :
                            valid[k] =>
                                ScOut[k] = RoundLevel(<<Min2(Max2(ToU(db.data[k]), c.low), c.high) - c.low,
                                                        c.range>>, MaxVal(scRes.bit_depth))

----------------------------------------------------------------------------
(* Claims about constant grids (SpecFlat)                                  *)

\* every sample is valid and all samples have the same dB value
FlatGrid ==
    /\ ScN >= 1
    /\ \A k \in 1..ScN : valid[k] /\ db.data[k] = db.data[1]

Uniform(out, n, v) == out = [k \in 1..n |-> v]

\* C11: on a grid whose samples are all valid and equal the snapshot has
\* min = max = median and the band a call returns, for every strategy, bit
\* depth and grid size, is uniform and equal to 0 or to max_value.
C11_FlatGridFlatBand ==
    (ScCalled /\ FlatGrid /\ scRes.status = "ok") =>
        /\ \A st \in { ScStats } : st.min_db = st.max_db /\ st.median_db = st.min_db
        /\ \/ Uniform(ScOut, ScN, 0)
           \/ Uniform(ScOut, ScN, MaxVal(scRes.bit_depth))

\* What does hold on such a grid: the snapshot is single-valued, and every
\* call that does not take the CLAHE path returns a band of zeros.
FlatGridZeroBand ==
    (ScCalled /\ FlatGrid) =>
        /\ \A st \in { ScStats } :
              /\ st.valid_count = ScN
              /\ \A i \in 1..13 : PercentileChain(st)[i] = ToU(db.data[1])
        /\ scRes.strategy # "Clahe" => scRes.status = "ok" /\ Uniform(ScOut, ScN, 0)

FlatGridZeroBand_Reached ==
    /\ ScCalled /\ FlatGrid /\ db.rows = 21
    /\ scRes.fn = "autoscale_db_image_advanced" /\ scRes.strategy = "Tamed"
    /\ scRes.bit_depth = "U16" /\ Uniform(scRes.u16, 147, 0)

\* C12: the 8x8 grid of 0 dB, all valid, scaled with Standard at 8 bits:
\* the dynamic range 0 is below 15, so the cascade takes its low-contrast
\* window, and the band is uniform with a byte strictly between 0 and 255.
C12_ConstantGridMidRange ==
    (/\ ScCalled /\ FlatGrid
     /\ db.rows = 8 /\ db.cols = 8 /\ db.data[1] = 0
     /\ UsesPlainEngine /\ scRes.bit_depth = "U8") =>
        /\ \A st \in { ScStats } : StandardCascade(st).branch = "low_contrast"
        /\ \E v \in 1..254 : Uniform(ScOut, 64, v)

----------------------------------------------------------------------------
(* Claims about the compositor (SpecRgb, SpecCompose)                      *)

RgbCalled == rgbRes.status # "none"
RgbN == Len(band1)
Red(i) == rgbRes.rgb[3 * i - 2]
Green(i) == rgbRes.rgb[3 * i - 1]
Blue(i) == rgbRes.rgb[3 * i]

\* C13: create_synthetic_rgb on two bands of n bytes returns 3n bytes,
\* R, G, B per pixel: R is the red table at band1[i] and G the green table
\* at band2[i], so each depends on its own band only; B is the blue table
\* at (band1[i] << 8) | band2[i]; and B is 0 wherever band2[i] is 0.
C13_DefaultComposition ==
    (RgbCalled /\ rgbRes.fn = "create_synthetic_rgb") =>
        /\ rgbRes.status = "ok"
        /\ Len(rgbRes.rgb) = 3 * RgbN
        /\ \A i \in 1..RgbN :
              /\ Red(i) = GammaLevel(band1[i], 255, 7, 10)
              /\ Green(i) = GammaLevel(band2[i], 255, 9, 10)
              /\ \A j \in 1..RgbN :
                    /\ band1[i] = band1[j] => Red(i) = Red(j)
                    /\ band2[i] = band2[j] => Green(i) = Green(j)
                    /\ LutIndex(band1[i], band2[i]) = LutIndex(band1[j], band2[j]) => Blue(i) = Blue(j)
              /\ band2[i] = 0 => Blue(i) = 0
              /\ band2[i] # 0 =>
                    Blue(i) = BlueLevel(GammaLevel(band1[i], 255, 7, 10),
                                        GammaLevel(band2[i], 255, 9, 10), 306, 5)

C13_Witness ==
    /\ RgbCalled /\ rgbRes.fn = "create_synthetic_rgb" /\ RgbN >= 5
    /\ band1[1] = 200 /\ band2[1] = 0 /\ Red(1) > 0 /\ Green(1) = 0 /\ Blue(1) = 0
    /\ band1[2] = 200 /\ band2[2] = 41 /\ Red(2) = Red(1) /\ Blue(2) > 0

\* the floor as it is worded: min(f + 3, 40) for the smallest byte f whose
\* cumulative count reaches round(0.05 * total_count)
WordedFloor ==
    LET total == Len(band1) + Len(band2)
        reach == (2 * total + 20) \div 40                    \* round(total / 20)
        f     == CHOOSE i \in 0..255 :
                    /\ Cumulative(band1, band2, i) >= reach
                    /\ \A j \in 0..(i - 1) : Cumulative(band1, band2, j) < reach
    IN  IF f + 3 <= 40 THEN f + 3 ELSE 40

\* C14: the floor of create_synthetic_rgb_suppressed is min(f + 3, 40), so
\* it is at most 40; a pixel whose two bytes are both at or below it is
\* (0, 0, 0); in any other pixel a byte at or below it gives 0 in its own
\* channel (red for band1, green for band2).
C14_SuppressedFloor ==
    (RgbCalled /\ rgbRes.fn = "create_synthetic_rgb_suppressed") =>
        \A floor \in { WordedFloor } :
            /\ FloorWithCushion(FloorValue(band1, band2)) = floor
            /\ floor <= 40
            /\ Len(rgbRes.rgb) = 3 * RgbN
            /\ rgbRes.rgb = SuppressedWithFloor(band1, band2, floor)
            /\ \A i \in 1..RgbN :
                  /\ (band1[i] <= floor /\ band2[i] <= floor) =>
                        (Red(i) = 0 /\ Green(i) = 0 /\ Blue(i) = 0)
                  /\ band1[i] <= floor => Red(i) = 0
                  /\ band2[i] <= floor => Green(i) = 0

\* thirty bytes, so the count to reach is 2: the floor value is the second
\* smallest byte, one pixel is under the floor and one has a single byte
\* under it
C14_Witness ==
    /\ RgbCalled /\ rgbRes.fn = "create_synthetic_rgb_suppressed" /\ RgbN = 15
    /\ band1[1] = 0 /\ band2[1] = 2 /\ band1[2] = 2 /\ band2[2] = 200
    /\ FloorValue(band1, band2) = 2 /\ WordedFloor = 5
    /\ Red(1) = 0 /\ Green(1) = 0 /\ Blue(1) = 0
    /\ Red(2) = 0 /\ Green(2) > 0 /\ Blue(2) > 0

ComposingFns ==
    {"create_synthetic_rgb_by_mode_and_strategy",
     "save_processed_multiband_image_sequential", "process_safe_to_buffer"}

\* C15: in every entry point that builds a synthetic RGB image (the
\* strategy-aware dispatcher, the multiband JPEG save path, the in-memory
\* buffer API) the composite is the suppressed one when the autoscale
\* strategy is Tamed or CLAHE and the default one for every other strategy.
C15_SuppressedForTamedAndClahe ==
    (RgbCalled /\ rgbRes.fn \in ComposingFns) =>
        /\ rgbRes.status = "ok"
        /\ rgbRes.rgb = (IF rgbRes.strategy \in {"Tamed", "Clahe"}
                         THEN create_synthetic_rgb_suppressed(band1, band2)
                         ELSE create_synthetic_rgb(band1, band2))

\* What does hold: the strategy-aware dispatcher alone selects by strategy;
\* the save path and the buffer API compose with the default algorithm
\* whatever the strategy.
ComposedByEntryPoint ==
    (RgbCalled /\ rgbRes.fn \in ComposingFns) =>
        /\ rgbRes.status = "ok"
        /\ rgbRes.rgb = (IF /\ rgbRes.fn = "create_synthetic_rgb_by_mode_and_strategy"
                            /\ rgbRes.strategy \in {"Tamed", "Clahe"}
                         THEN create_synthetic_rgb_suppressed(band1, band2)
                         ELSE create_synthetic_rgb(band1, band2))

ComposedByEntryPoint_Reached ==
    /\ RgbCalled /\ rgbRes.fn = "create_synthetic_rgb_by_mode_and_strategy"
    /\ rgbRes.strategy = "Clahe" /\ rgbRes.mode = "SarUrban"
    /\ band1 = <<200>> /\ band2 = <<200>>
    /\ rgbRes.rgb # create_synthetic_rgb(band1, band2)

PlaceholderFns ==
    {"create_synthetic_rgb_rgb_ratio", "create_synthetic_rgb_urban",
     "create_synthetic_rgb_enhanced"}

\* C16: a placeholder composition function invoked directly fails with a
\* NotImplemented error handed to its caller as an error value, and the
\* mode dispatcher returns the default composite for each of the four modes.
C16_PlaceholdersReturnError ==
    RgbCalled =>
        /\ rgbRes.fn \in PlaceholderFns => rgbRes.status = "NotImplemented"
        /\ rgbRes.fn = "create_synthetic_rgb_by_mode" =>
              rgbRes.status = "ok" /\ rgbRes.rgb = create_synthetic_rgb(band1, band2)

\* What does hold: a placeholder panics, and the mode dispatcher returns the
\* default composite for each of the four modes.
PlaceholdersPanic ==
    RgbCalled =>
        /\ rgbRes.fn \in PlaceholderFns => rgbRes.status = "panic"
        /\ rgbRes.fn = "create_synthetic_rgb_by_mode" =>
              rgbRes.status = "ok" /\ rgbRes.rgb = create_synthetic_rgb(band1, band2)

----------------------------------------------------------------------------
(* Claims about the geometric transform (SpecGeo)                          *)

GeoCalled(fn) == geoRes.fn = fn /\ geoRes.r.status = "ok"
LongSide == Max2(img.cols, img.rows)

\* the buffer of the requested bit depth is there
HasBufferFor(bit_depth) ==
    IF bit_depth = "U8" THEN Len(img.u8_data) = img.cols * img.rows ELSE img.u16_data.some

\* the call of C17: a target above the long side, no padding, data present
LargerTarget ==
    /\ geoRes.fn = "resize_image_data_with_meta"
    /\ geoRes.target_size.some
    /\ geoRes.target_size.v > LongSide
    /\ ~geoRes.pad
    /\ HasBufferFor(geoRes.bit_depth)

\* C17: with a target size strictly greater than the long side and no
\* padding, resize_image_data_with_meta does not invoke the resampler and
\* returns the original dimensions, the input data element for element,
\* scale_x = scale_y = 1.0 and zero padding offsets.
C17_LargerTargetSkipsResampling ==
    LargerTarget =>
        /\ geoRes.r.resampler_calls = <<>>
        /\ geoRes.r.status = "ok"
        /\ geoRes.r.cols = img.cols /\ geoRes.r.rows = img.rows
        /\ geoRes.bit_depth = "U8" => geoRes.r.u8 = img.u8_data
        /\ geoRes.bit_depth = "U16" => geoRes.r.u16 = img.u16_data
        /\ IsOne(geoRes.r.scale_x) /\ IsOne(geoRes.r.scale_y)
        /\ geoRes.r.pad_left = 0 /\ geoRes.r.pad_top = 0

\* What the code does in that case: the resampler is called once, with the
\* original dimensions as its target; what comes back, an error included, is
\* what the caller gets, under the original dimensions and a scale of 1.0.
LargerTargetResamples ==
    LargerTarget =>
        /\ Len(geoRes.r.resampler_calls) = 1
        /\ geoRes.r.status = "err" => geoRes.r.error = "fast_image_resize"
        /\ geoRes.r.status = "ok" =>
              /\ geoRes.r.cols = img.cols /\ geoRes.r.rows = img.rows
              /\ IsOne(geoRes.r.scale_x) /\ IsOne(geoRes.r.scale_y)
              /\ geoRes.r.pad_left = 0 /\ geoRes.r.pad_top = 0

LargerTargetResamples_Reached ==
    /\ LargerTarget
    /\ geoRes.r.status = "ok"
    /\ geoRes.bit_depth = "U16"
    /\ Len(geoRes.r.resampler_calls) = 1

\* a padded result, of resize_image_data_with_meta or of add_padding_to_square
Padded ==
    /\ geoRes.fn \in {"resize_image_data_with_meta", "add_padding_to_square"}
    /\ geoRes.pad
    /\ geoRes.r.status = "ok"

SamplesOf(u8, u16) == IF geoRes.bit_depth = "U8" THEN u8 ELSE u16.v

\* C18: padding a cols x rows grid gives a square canvas of side
\* S = max(cols, rows); with pad_left = (S - cols) / 2 and
\* pad_top = (S - rows) / 2, source pixel (r, c) is at canvas position
\* (r + pad_top, c + pad_left), every other canvas pixel is 0, and the
\* pad_left / pad_top that resize_image_data_with_meta reports are these.
C18_PaddingGeometry ==
    Padded =>
        LET src == geoRes.r.unpadded
            S == Max2(src.cols, src.rows)
            pad_left == (S - src.cols) \div 2
            pad_top == (S - src.rows) \div 2
            canvas == SamplesOf(geoRes.r.u8, geoRes.r.u16)
            source == SamplesOf(src.u8, src.u16)
        IN /\ geoRes.r.cols = S /\ geoRes.r.rows = S
           /\ Len(canvas) = S * S
           /\ \A k \in 1..(S * S) :
                 LET r == ((k - 1) \div S) - pad_top
                     c == ((k - 1) % S) - pad_left
                 IN canvas[k] = IF r \in 0..(src.rows - 1) /\ c \in 0..(src.cols - 1)
                                THEN source[r * src.cols + c + 1]
                                ELSE 0
           /\ geoRes.fn = "resize_image_data_with_meta" =>
                 geoRes.r.pad_left = pad_left /\ geoRes.r.pad_top = pad_top

\* a wide grid (3 columns, 1 row) centred in a 3x3 canvas: pad_top 1,
\* pad_left 0, the source in the middle row and zeros above and below
C18_Witness ==
    /\ Padded
    /\ geoRes.fn = "resize_image_data_with_meta"
    /\ geoRes.bit_depth = "U8"
    /\ geoRes.r.unpadded.cols = 3 /\ geoRes.r.unpadded.rows = 1
    /\ geoRes.r.pad_top = 1 /\ geoRes.r.pad_left = 0
    /\ geoRes.r.u8 = <<0, 0, 0, 1, 2, 3, 0, 0, 0>>

\* a 16-bit grid that went through the resampler
Resampled16 ==
    /\ GeoCalled("resize_image_data_with_meta")
    /\ geoRes.bit_depth = "U16"
    /\ geoRes.r.resampler_calls # <<>>

\* C19: a 16-bit grid is resampled as 8-bit data and promoted back by a left
\* shift of 8 bits, so every value of a resampled 16-bit output has its low
\* 8 bits equal to zero.
C19_Resample16ViaU8 ==
    Resampled16 =>
        /\ geoRes.r.resampler_calls = <<"U8">>
        /\ \A k \in DOMAIN geoRes.r.u16.v : geoRes.r.u16.v[k] % 256 = 0

\* What the code does: the 16-bit words go to the resampler as PixelType::U16
\* and come back as they are, low bytes included.
Resample16Native ==
    Resampled16 =>
        /\ geoRes.r.resampler_calls = <<"U16">>
        /\ geoRes.r.u8 = <<>>
        /\ geoRes.r.u16.some

Resample16Native_Reached ==
    /\ Resampled16
    /\ geoRes.target_size.v < LongSide
    /\ \E k \in DOMAIN geoRes.r.u16.v : geoRes.r.u16.v[k] % 256 # 0

\* a call at U16 that is given no 16-bit buffer
MissingBuffer ==
    /\ geoRes.fn \in {"resize_image_data_with_meta", "add_padding_to_square"}
    /\ geoRes.bit_depth = "U16"
    /\ ~img.u16_data.some

\* C20: resize_image_data_with_meta and add_padding_to_square called with
\* bit depth U16 but without a 16-bit buffer fail with the missing-buffer
\* error and never return a success, whatever the target size (absent, equal
\* to the long side, smaller, larger) and the padding flag.
C20_MissingBufferAlwaysFails ==
    MissingBuffer => geoRes.r.status = "err" /\ geoRes.r.error = U16Required

\* the one combination that succeeds: a target equal to the long side, no padding
AtLongSideUnpadded ==
    /\ geoRes.target_size.some
    /\ geoRes.target_size.v = LongSide
    /\ ~geoRes.pad

\* Everywhere else the call fails, before the resampler is reached; in the
\* remaining combination it succeeds with an empty byte vector and no words.
MissingBufferFailsElsewhere ==
    MissingBuffer =>
        IF geoRes.fn = "resize_image_data_with_meta" /\ AtLongSideUnpadded
        THEN /\ geoRes.r.status = "ok"
             /\ geoRes.r.u8 = <<>> /\ ~geoRes.r.u16.some
             /\ geoRes.r.cols = img.cols /\ geoRes.r.rows = img.rows
        ELSE /\ geoRes.r.status = "err"
             /\ geoRes.r.error = U16Required
             /\ geoRes.r.resampler_calls = <<>>

MissingBufferFailsElsewhere_Reached ==
    /\ MissingBuffer
    /\ geoRes.fn = "resize_image_data_with_meta"
    /\ geoRes.target_size.some /\ geoRes.target_size.v < LongSide
    /\ geoRes.pad
    /\ geoRes.r.status = "err"

\* a call of calculate_resize_dimensions with 1 <= t <= long side
Downsizing ==
    /\ geoRes.fn = "calculate_resize_dimensions"
    /\ geoRes.target_size.v <= LongSide

ShortSide == Min2(img.cols, img.rows)

\* C27: for cols >= 1, rows >= 1 and 1 <= t <= long side,
\* calculate_resize_dimensions returns the long side t and the short side
\* round(short * t / long), keeps the wider axis the wider one, and returns
\* both dimensions >= 1.
C27_ResizeDimensionsPositive ==
    Downsizing =>
        LET t == geoRes.target_size.v
            short == (2 * ShortSide * t + LongSide) \div (2 * LongSide)
        IN /\ Max2(geoRes.r.cols, geoRes.r.rows) = t
           /\ Min2(geoRes.r.cols, geoRes.r.rows) = short
           /\ img.cols > img.rows => geoRes.r.cols >= geoRes.r.rows
           /\ img.rows > img.cols => geoRes.r.rows >= geoRes.r.cols
           /\ geoRes.r.cols >= 1 /\ geoRes.r.rows >= 1

\* Everything but the last line holds: the long side is t, the short side is
\* the rounded quotient and the orientation is kept; the short side is 0
\* exactly when short * t / long is below one half.
ResizeDimensionsRounded ==
    Downsizing =>
        LET t == geoRes.target_size.v
            short == (2 * ShortSide * t + LongSide) \div (2 * LongSide)
        IN /\ Max2(geoRes.r.cols, geoRes.r.rows) = t
           /\ Min2(geoRes.r.cols, geoRes.r.rows) = short
           /\ img.cols > img.rows => geoRes.r.cols >= geoRes.r.rows
           /\ img.rows > img.cols => geoRes.r.rows >= geoRes.r.cols
           /\ (Min2(geoRes.r.cols, geoRes.r.rows) = 0) <=> (2 * ShortSide * t < LongSide)

\* the zero side reaches the resampler: a 1 x 3 grid resized to a long side of 1
ZeroSideResampled ==
    /\ geoRes.fn = "resize_image_data_with_meta"
    /\ geoRes.target_size.some /\ geoRes.target_size.v < LongSide
    /\ geoRes.r.resampler_calls # <<>>
    /\ geoRes.r.status = "ok"
    /\ ~geoRes.pad
    /\ geoRes.r.cols = 0

----------------------------------------------------------------------------
(* Further claims about quantization (SpecScale, SpecFlat)                 *)

\* a wrapper that returned bytes
WrapperBytes ==
    /\ scRes.status = "ok"
    /\ scRes.fn \in {"autoscale_db_image_to_bitdepth",
                     "autoscale_db_image_to_bitdepth_advanced"}
    /\ scRes.bit_depth = "U8"

\* the 0..255 values the engine behind the wrapper computes at BitDepth::U8
EngineU8 ==
    IF scRes.fn = "autoscale_db_image_to_bitdepth"
    THEN autoscale_db_image(db, valid, "U8")
    ELSE autoscale_db_image_advanced(db, valid, "U8", scRes.strategy, FALSE).out

\* C26: at bit depth 8 the bytes returned by autoscale_db_image_to_bitdepth
\* and autoscale_db_image_to_bitdepth_advanced equal, pixel for pixel, the
\* values computed by autoscale_db_image / autoscale_db_image_advanced with
\* BitDepth::U8; scale_u16_to_u8 neither shifts nor rescales them.
C26_WrapperKeepsBytes ==
    WrapperBytes => \A q \in { EngineU8 } : scRes.u8 = q

\* What the wrappers return: the engine's values stretched from their own
\* [min, max] onto 0..255, and min subtracted when min = max.
WrapperStretchesBytes ==
    WrapperBytes =>
        \A q \in { EngineU8 } :
            /\ Len(scRes.u8) = Len(q)
            /\ \A lo \in { SeqMin(q) }, hi \in { SeqMax(q) } :
                  \A k \in DOMAIN q :
                     scRes.u8[k] = IF hi > lo
                                   THEN (2 * 255 * (q[k] - lo) + (hi - lo)) \div (2 * (hi - lo))
                                   ELSE 0

WrapperStretchesBytes_Reached ==
    /\ WrapperBytes
    /\ scRes.strategy # "Clahe"
    /\ \E q \in { EngineU8 } : SeqMax(q) < 255 /\ SeqMax(q) > SeqMin(q) /\ SeqMax(scRes.u8) = 255

\* a call that took the CLAHE path: strategy CLAHE and a valid sample
ClaheCalled ==
    /\ ScCalled
    /\ scRes.strategy = "Clahe"
    /\ ~NoValid

\* C23: for every non-empty grid, also one with fewer than 8 rows or columns,
\* the CLAHE strategy completes and returns rows*cols values, and each of
\* the 64 tiles has a row range and a column range with start <= end, so
\* that no tile size is an underflowed subtraction.
C23_ClaheTilesInRange ==
    ClaheCalled =>
        /\ scRes.status = "ok"
        /\ Len(ScOut) = db.rows * db.cols
        /\ ~TileUnderflow(db.rows, db.cols)

\* The ranges are in order exactly when seven full tiles fit into the grid
\* along both axes, and a call fails only where they are not.
TilesInRangeIffSevenFit ==
    ClaheCalled =>
        /\ TileUnderflow(db.rows, db.cols) <=>
              \/ (TILES - 1) * TileSize(db.rows, TILES) > db.rows
              \/ (TILES - 1) * TileSize(db.cols, TILES) > db.cols
        /\ scRes.status = "panic" => TileUnderflow(db.rows, db.cols)
        /\ scRes.status = "ok" => Len(ScOut) = db.rows * db.cols

TilesInRange_Reached ==
    /\ ClaheCalled
    /\ scRes.status = "ok"
    /\ ~TileUnderflow(db.rows, db.cols)
    /\ db.rows = 21 /\ db.cols = 7

\* the bins of the grid's pixels as the CLAHE path computes them
ClaheBins ==
    Only({ Tabulated([k \in 1..ScN |-> NormBin(norm[k])])
         : norm \in { ClaheNorm(db, valid, AdvancedClip(ScStats, "Clahe")) } })

\* the CDF values of the four tiles blended at pixel (r, c), lines 315-325
BlendCorners(bins, r, c) ==
    LET ty == BlendTile(r, TileSize(db.rows, TILES))
        tx == BlendTile(c, TileSize(db.cols, TILES))
        bin_pos == bins[r * db.cols + c + 1]
    IN  { TileCdf(db.rows, db.cols, bins, valid, ClampTile(y), ClampTile(x), bin_pos)
          : y \in {ty, ty + 1}, x \in {tx, tx + 1} }

\* a / b <= c / d for positive denominators
RatLeq(x, y) == x[1] * y[2] <= y[1] * x[2]

\* a CLAHE call that returned
ClaheBlended ==
    /\ ClaheCalled
    /\ scRes.status = "ok"
    /\ scRes.fn = "autoscale_db_image_advanced"

\* C25: for every valid pixel, those of the first half-tile next to the top
\* and left borders included, the two bilinear weights lie in [0, 1], and
\* the blended value is a convex combination of the CDF values of the four
\* neighbouring tiles: never below the smallest, never above the largest.
C25_BlendIsConvex ==
    ClaheBlended =>
        \A bins \in { ClaheBins } :
            \A k \in 1..ScN :
                valid[k] =>
                    LET r == (k - 1) \div db.cols
                        c == (k - 1) % db.cols
                        tw == TileSize(db.cols, TILES)
                        th == TileSize(db.rows, TILES)
                    IN  /\ BlendWeightN(c, tw) \in 0..(2 * tw)
                        /\ BlendWeightN(r, th) \in 0..(2 * th)
                        /\ \A v \in { sample_cdf(db.rows, db.cols, bins, valid, r, c) } :
                              /\ \E lo \in BlendCorners(bins, r, c) : RatLeq(lo, v)
                              /\ \E hi \in BlendCorners(bins, r, c) : RatLeq(v, hi)

\* What holds: the weights lie in [-1/2, 1), and a weight is negative exactly
\* for the pixels of the first half-tile along its axis.
BlendWeightsFromMinusHalf ==
    ClaheBlended =>
        \A k \in 1..ScN :
            LET r == (k - 1) \div db.cols
                c == (k - 1) % db.cols
                tw == TileSize(db.cols, TILES)
                th == TileSize(db.rows, TILES)
            IN  /\ BlendWeightN(c, tw) \in (-tw)..(2 * tw - 1)
                /\ BlendWeightN(r, th) \in (-th)..(2 * th - 1)
                /\ BlendWeightN(c, tw) < 0 <=> 2 * c < tw
                /\ BlendWeightN(r, th) < 0 <=> 2 * r < th

\* a blended value above 1, the largest value a CDF takes
BlendOvershoots_Reached ==
    /\ ClaheBlended
    /\ \E bins \in { ClaheBins } :
          \E k \in 1..ScN :
             /\ valid[k]
             /\ \E v \in { sample_cdf(db.rows, db.cols, bins, valid,
                                      (k - 1) \div db.cols, (k - 1) % db.cols) } :
                   v[1] > v[2]

----------------------------------------------------------------------------
(* Claims about one CLAHE tile (SpecClip)                                  *)

Clipped == clipRes.status = "ok"
TilePixelCount == tileIn.tile_rows * tileIn.tile_cols

\* C24: clipping at max(1, 2.0 * tile_pixel_count / 256) and redistributing
\* the excess (integer share per bin plus the remainder one per bin)
\* conserves the mass of the histogram: the 256 bins sum to the number of
\* valid pixels counted in the tile before clipping.
C24_ClipConservesMass ==
    Clipped => Mass(clipRes.hist) = Mass(tileIn.hist)

\* What holds: mass is never gained, and it is conserved when the threshold
\* is a whole number (up to 128 pixels, or a multiple of 128).
ClipLosesMass ==
    Clipped =>
        /\ Len(clipRes.hist) = CLAHE_BINS
        /\ Mass(clipRes.hist) <= Mass(tileIn.hist)
        /\ (TilePixelCount <= 128 \/ TilePixelCount % 128 = 0) =>
              Mass(clipRes.hist) = Mass(tileIn.hist)

\* a tile of 200 pixels (threshold 1.5625) with one bin of 5: the bin is cut
\* to 1, the excess 3.4375 is handed back as 3, and one pixel is lost
ClipLosesMass_Reached ==
    /\ Clipped
    /\ TilePixelCount = 200
    /\ tileIn.hist[1] = 5 /\ Mass(tileIn.hist) = 5
    /\ clipRes.hist[1] = 2 /\ clipRes.hist[2] = 1 /\ clipRes.hist[3] = 1
    /\ Mass(clipRes.hist) = 4

----------------------------------------------------------------------------
(* Claims about saving (SpecSave)                                          *)

\* a save that wrote a geotransform, for a grid resampled to a non-empty one
SavedWithGt ==
    /\ saveRes.status = "ok"
    /\ saveRes.gt_override.some
    /\ saveRes.r.scale_x[1] > 0 /\ saveRes.r.scale_y[1] > 0

\* C21: in every save path that has a source geotransform the pixel sizes
\* written are the source pixel sizes divided by scale_x and scale_y of the
\* geometric record (padding alone, with scale 1.0, leaves them unchanged),
\* and the origin is shifted by pad_left and pad_top times these pixel sizes.
C21_PixelSizeByScale ==
    SavedWithGt =>
        LET out == saveRes.gt_override.gt
            r == saveRes.r
        IN /\ RatEq(RatTimes(out[2], r.scale_x[1], r.scale_x[2]), meta.gt[2])
           /\ RatEq(RatTimes(out[6], r.scale_y[1], r.scale_y[2]), meta.gt[6])
           /\ RatEq(out[1], RatMinus(meta.gt[1], RatTimes(out[2], r.pad_left, 1)))
           /\ RatEq(out[4], RatMinus(meta.gt[4], RatTimes(out[6], r.pad_top, 1)))

\* What is written: the source pixel sizes times cols / final_cols and
\* rows / final_rows, the size of the padded canvas included; this is the
\* division by the scale when nothing was padded or the grid was square.
PixelSizeByFinalSize ==
    SavedWithGt =>
        LET out == saveRes.gt_override.gt
            r == saveRes.r
        IN /\ RatEq(out[2], RatTimes(meta.gt[2], img.cols, r.cols))
           /\ RatEq(out[6], RatTimes(meta.gt[6], img.rows, r.rows))
           /\ RatEq(out[1], RatMinus(meta.gt[1], RatTimes(out[2], r.pad_left, 1)))
           /\ RatEq(out[4], RatMinus(meta.gt[4], RatTimes(out[6], r.pad_top, 1)))
           /\ (~saveRes.pad \/ r.unpadded.cols = r.unpadded.rows) =>
                 /\ RatEq(RatTimes(out[2], r.scale_x[1], r.scale_x[2]), meta.gt[2])
                 /\ RatEq(RatTimes(out[6], r.scale_y[1], r.scale_y[2]), meta.gt[6])

\* a 3 x 1 grid padded without a target: scale 1.0, yet the pixel height
\* -10 is written as -10 / 3
PixelSizeByFinalSize_Reached ==
    /\ SavedWithGt
    /\ saveRes.fn = "save_processed_image"
    /\ ~saveRes.target_size.some /\ saveRes.pad
    /\ img.cols = 3 /\ img.rows = 1
    /\ IsOne(saveRes.r.scale_y)
    /\ RatEq(saveRes.gt_override.gt[6], <<-10, 3>>)

----------------------------------------------------------------------------
(* Claims about batch processing (SpecBatch)                               *)

\* a product that fails: while being opened or while being processed
Fails(i) == products[i] \in {"unreadable", "failing"}
FailuresBefore(i) == Cardinality({ j \in 1..(i - 1) : Fails(j) })

\* C22: with continue_on_error the call never returns an error because of
\* a failing product: every failing product, failing while opened or while
\* processed, is counted in report.errors and the loop goes on until all
\* subdirectories are visited; without it the call returns the first
\* product error and processes no later product.
C22_ContinueOnError ==
    /\ (batch.continue_on_error /\ batch.status = "err") => batch.failed_at = 0
    /\ (batch.continue_on_error /\ batch.status = "ok") =>
          /\ batch.next = Len(products) + 1
          /\ batch.report.errors = FailuresBefore(Len(products) + 1)
    /\ (~batch.continue_on_error /\ batch.status = "err" /\ batch.failed_at > 0) =>
          /\ Fails(batch.failed_at)
          /\ FailuresBefore(batch.failed_at) = 0
          /\ batch.next = batch.failed_at
    /\ (~batch.continue_on_error /\ batch.status = "ok") =>
          FailuresBefore(Len(products) + 1) = 0

\* What holds: a product that fails while being PROCESSED is counted and
\* passed over under continue_on_error; one that fails while being OPENED
\* ends the call with its error, whatever the flag.
ContinueOnProcessingError ==
    /\ (batch.status = "err" /\ batch.failed_at > 0) =>
          /\ batch.next = batch.failed_at
          /\ \/ products[batch.failed_at] = "unreadable"
             \/ products[batch.failed_at] = "failing" /\ ~batch.continue_on_error
          /\ \A j \in 1..(batch.failed_at - 1) :
                /\ products[j] # "unreadable"
                /\ products[j] = "failing" => batch.continue_on_error
    /\ batch.status = "ok" =>
          /\ batch.next = Len(products) + 1
          /\ \A j \in 1..Len(products) :
                /\ products[j] # "unreadable"
                /\ products[j] = "failing" => batch.continue_on_error
          /\ batch.report.errors = Cardinality({ j \in 1..Len(products) : products[j] = "failing" })
          /\ batch.report.skipped = Cardinality({ j \in 1..Len(products) : products[j] = "unsupported" })
          /\ batch.report.processed = Cardinality({ j \in 1..Len(products) : products[j] = "good" })

\* a failing product counted and passed over, then an unreadable one that
\* ends the batch although continue_on_error is set
ContinueOnProcessingError_Reached ==
    /\ batch.continue_on_error
    /\ batch.status = "err"
    /\ products = <<"failing", "unreadable", "good">>
    /\ batch.failed_at = 2
    /\ batch.report.errors = 1

----------------------------------------------------------------------------
(* Claims about the GUI (SpecGui, SpecGuiLive)                             *)

LiveWorkers == { i \in 1..Len(workers) : Alive(workers[i]) }

\* the message of the worker whose receiver the GUI holds is in the channel
MessageQueued ==
    /\ gui.completion_receiver # 0
    /\ workers[gui.completion_receiver].msg = "queued"

\* C28: at most one background worker exists at any time; process_files
\* called while is_processing is true starts no thread and changes no
\* state of the GUI; is_processing goes back to false only in a frame
\* that received the completion message of the current worker.
C28_SingleWorker ==
    [][/\ Cardinality(LiveWorkers') <= 1
       /\ ProcessFilesWhileBusy => UNCHANGED <<gui, workers, log_messages>>
       /\ (gui.is_processing /\ ~gui'.is_processing) => MessageQueued]_vars

\* What holds: one live worker at most for each SarproGui::default(), the
\* busy call changes nothing but the log, and is_processing falls on the
\* completion message or on Reset.
SingleWorkerPerReset ==
    [][/\ Cardinality({ i \in LiveWorkers' : workers'[i].logs = gui'.logs }) <= 1
       /\ ProcessFilesWhileBusy => UNCHANGED <<gui, workers, log_messages>>
       /\ (gui.is_processing /\ ~gui'.is_processing) =>
             (MessageQueued \/ gui'.logs # gui.logs)]_vars

\* Reset while a worker runs, Process again: two workers
TwoWorkers_Reached ==
    /\ Cardinality(LiveWorkers) = 2
    /\ gui.is_processing
    /\ gui.logs = 1

\* the worker of the current run is gone
WorkerEnded ==
    /\ gui.is_processing
    /\ gui.completion_receiver # 0
    /\ ~Alive(workers[gui.completion_receiver])

Released == ~gui.is_processing /\ gui.completion_receiver = 0

\* C29: once the worker of a run has ended, with or without having sent
\* its completion message, a later frame sets is_processing to false and
\* clears completion_receiver.
C29_BusyReleased == WorkerEnded ~> Released

\* What holds: a run whose worker sent its message is released.
SentIsReleased == MessageQueued ~> Released

\* a run released by its message
SentIsReleased_Reached ==
    /\ Released
    /\ gui.logs = 0
    /\ Len(workers) = 1
    /\ workers[1].msg = "taken"

\* a run whose worker panicked: the GUI stays busy
PanickedStaysBusy == [][(WorkerEnded /\ ~MessageQueued) => gui'.is_processing \/ gui'.logs # gui.logs]_vars

PanickedStaysBusy_Reached ==
    /\ WorkerEnded
    /\ workers[gui.completion_receiver].pc = "panicked"

DirectEntries(s) == StoreLen(SelectSeq(s, LAMBDA run : run[1] \in {"separator", "cli"}))

\* C30: neither log store holds more than 1000 entries once an operation
\* on it has completed, LOG_BUFFER after any on_event and log_messages
\* under any interleaving of the frames' drains with the workers' pushes
\* of the separator; what is discarded are the oldest entries.
C30_LogStoresCapped ==
    [][/\ StoreLen(LOG_BUFFER') <= LOG_CAP
       /\ StoreLen(log_messages') <= LOG_CAP
       /\ OnEvent => LOG_BUFFER'[Len(LOG_BUFFER')][1] = "event"]_vars

\* What holds: LOG_BUFFER is capped and loses its oldest entries;
\* log_messages is cut to 1000 only by a frame in which entries arrived
\* from LOG_BUFFER, and exceeds 1000 by the entries pushed onto it directly
\* since.
BufferCappedListTrimmed ==
    [][/\ StoreLen(LOG_BUFFER') <= LOG_CAP
       /\ StoreLen(log_messages') <= LOG_CAP + DirectEntries(log_messages')
       /\ OnEvent => LOG_BUFFER'[Len(LOG_BUFFER')][1] = "event"
       /\ (OnEvent /\ StoreLen(LOG_BUFFER) = LOG_CAP) => LOG_BUFFER' = on_event(DropOldest(LOG_BUFFER, 1))]_vars

\* a full list and a worker's separator on top of it
ListOverCap_Reached ==
    /\ StoreLen(log_messages) = LOG_CAP + 1
    /\ log_messages[Len(log_messages)] = <<"separator", 1>>

============================================================================
